---- MODULE Spec2Model ----
(***************************************************************************)
(* Label verification engine of the TTB label checker: the text           *)
(* normaliser, the field extractors and the aggregator verifyLabel; and    *)
(* around it the OCR providers, the form TTBForm and the page Home.        *)
(*                                                                         *)
(* A JavaScript string is a sequence of one-character strings.  A number   *)
(* with at most two decimals is the integer count of its hundredths (5.1   *)
(* is 510); the comparison against the tolerance is computed as IEEE-754   *)
(* double arithmetic computes it.                                          *)
(***************************************************************************)
EXTENDS Integers, Sequences, FiniteSets, TLC

VARIABLES
    pc,         \* position of the run: "input" before the call, then the call made
    text,       \* the recognised text handed to the function under study
    expected,   \* the expected-value argument of an extractor
    formData,   \* the declared data handed to verifyLabel
    confidence, \* ocrResult.confidence, in hundredths
    hist,       \* the values returned so far, oldest first
    errors,             \* TTBForm: the validation errors, by field name
    selectedImage,      \* Home: the uploaded file, or NullObject
    isProcessing,       \* Home: a submission is being processed
    verificationResult, \* Home: the result shown, or NullObject
    error,              \* Home: the error message shown, or Null
    extractions         \* the calls of extractTextFromImage made, oldest first

\* the state of the two components of the page
uiVars == <<errors, selectedImage, isProcessing, verificationResult, error, extractions>>

vars == <<pc, text, expected, formData, confidence, hist, uiVars>>

(***************************************************************************)
(* Bounds of the model.                                                    *)
(***************************************************************************)
MaxNormLen == 4      \* longest string handed to normalizeText, in characters
MaxBrandTokens == 3  \* longest text handed to extractBrandName, in tokens
MaxAlcoholTokens == 3  \* longest text handed to extractAlcoholPercentage, in tokens
MaxVolumeTokens == 3  \* longest text handed to extractVolume, in tokens
MaxLabelTokens == 2  \* longest text handed to verifyLabel, in tokens
MaxSubmissions == 2  \* most submissions of the page that reach the OCR provider
MaxFormSubmits == 1  \* most calls of onSubmit the form makes
MaxSimilarityTokens == 2  \* longest string handed to isBrandNameMatch, in tokens

(***************************************************************************)
(* JavaScript values.                                                      *)
(***************************************************************************)
\* A string is a sequence of one-character strings, so that neither of these
\* two values is a string.
Null == <<"null">>
Undefined == <<"undefined">>
\* null where an object is expected: a record, as the objects are
NullObject == [null |-> TRUE]

\* The two components as React constructs them: no error, no image, nothing
\* being processed, nothing shown, no call made.
UiInit ==
    /\ errors = [f \in {} |-> ""]
    /\ selectedImage = NullObject
    /\ isProcessing = FALSE
    /\ verificationResult = NullObject
    /\ error = Null
    /\ extractions = <<>>

Min(S) == CHOOSE x \in S : \A y \in S : x <= y
Max(S) == CHOOSE x \in S : \A y \in S : x >= y
Range(s) == {s[i] : i \in 1..Len(s)}

RECURSIVE Flatten(_)
Flatten(ss) == IF ss = <<>> THEN <<>> ELSE Head(ss) \o Flatten(Tail(ss))

\* All sequences over S of length at most n.
SeqsUpTo(S, n) == UNION {[1..k -> S] : k \in 0..n}

(***************************************************************************)
(* Character classes of the regular expressions: \d, \s, \w.               *)
(***************************************************************************)
DigitChars == <<"0", "1", "2", "3", "4", "5", "6", "7", "8", "9">>
LowerChars == <<"a", "b", "c", "d", "e", "f", "g", "h", "i", "j", "k", "l", "m",
                "n", "o", "p", "q", "r", "s", "t", "u", "v", "w", "x", "y", "z">>
UpperChars == <<"A", "B", "C", "D", "E", "F", "G", "H", "I", "J", "K", "L", "M",
                "N", "O", "P", "Q", "R", "S", "T", "U", "V", "W", "X", "Y", "Z">>
Digit == Range(DigitChars)
Upper == Range(UpperChars)
Whitespace == {" ", "\n", "\t", "\r"}
LineTerminator == {"\n", "\r"}
WordChar == Digit \cup Range(LowerChars) \cup Upper \cup {"_"}
WordOrSpace == WordChar \cup Whitespace

LowerOf == [c \in Upper |-> LowerChars[CHOOSE i \in 1..26 : UpperChars[i] = c]]

\* String.prototype.toLowerCase, one character
toLowerCaseChar(c) == IF c \in Upper THEN LowerOf[c] ELSE c

\* String.prototype.toLowerCase
toLowerCase(s) == [i \in 1..Len(s) |-> toLowerCaseChar(s[i])]

\* String.prototype.trim: drops the white space at both ends only
trim(s) ==
    LET inked == {i \in 1..Len(s) : s[i] \notin Whitespace}
    IN  IF inked = {} THEN <<>> ELSE SubSeq(s, Min(inked), Max(inked))

\* replace(/[^\w\s]/g, ''): drops every character that is neither \w nor \s
stripNonWordNonSpace(s) == SelectSeq(s, LAMBDA c : c \in WordOrSpace)

\* normalizeText: text.toLowerCase().trim().replace(/[^\w\s]/g, '')
normalizeText(t) == stripNonWordNonSpace(trim(toLowerCase(t)))

\* String.prototype.includes
includes(s, t) ==
    \E i \in 1..(Len(s) - Len(t) + 1) : SubSeq(s, i, i + Len(t) - 1) = t

(***************************************************************************)
(* The normaliser applied to a string, and then to its own result.         *)
(***************************************************************************)
NormAlphabet == {"A", "b", " ", "\n", "!"}

InitNormalize ==
    /\ pc = "input"
    /\ text \in SeqsUpTo(NormAlphabet, MaxNormLen)
    /\ expected = Undefined
    /\ formData = Undefined
    /\ confidence = 0
    /\ hist = <<>>
    /\ UiInit

\* normalizeText(text)
Normalize ==
    /\ pc = "input"
    /\ hist' = <<normalizeText(text)>>
    /\ pc' = "once"
    /\ UNCHANGED <<text, expected, formData, confidence, uiVars>>

\* normalizeText(normalizeText(text))
NormalizeAgain ==
    /\ pc = "once"
    /\ hist' = Append(hist, normalizeText(hist[1]))
    /\ pc' = "twice"
    /\ UNCHANGED <<text, expected, formData, confidence, uiVars>>

NextNormalize == Normalize \/ NormalizeAgain

SpecNormalize == InitNormalize /\ [][NextNormalize]_vars

\* C7: normalizeText is idempotent: normalising a normalised string changes
\* nothing, also when stripping punctuation exposes white space at an end.
C7_NormalizeIdempotent == pc = "twice" => hist[2] = hist[1]

(***************************************************************************)
(* Brand name and product class: the expected value is looked up in the    *)
(* normalised text.                                                        *)
(***************************************************************************)

\* if (expected): an undefined or empty expected value is falsy
Truthy(v) == v # Undefined /\ v # Null /\ v # <<>>

\* A plausible slip: the expected value is looked up in the raw text.
extractBrandNameRaw(t, expectedBrandName) ==
    IF Truthy(expectedBrandName) /\ includes(t, expectedBrandName)
    THEN expectedBrandName
    ELSE Null

\* extractBrandName(text, expectedBrandName)
extractBrandName(t, expectedBrandName) ==
    IF Truthy(expectedBrandName)
       /\ includes(normalizeText(t), normalizeText(expectedBrandName))
    THEN expectedBrandName
    ELSE Null

\* extractProductClass(text, expectedProductClass)
extractProductClass(t, expectedProductClass) ==
    IF Truthy(expectedProductClass)
       /\ includes(normalizeText(t), normalizeText(expectedProductClass))
    THEN expectedProductClass
    ELSE Null

BrandTokens ==
    { <<"B", "u", "d">>, <<"b", "u", "d">>, <<"L", "i", "t", "e">>,
      <<"B", ".", "u", "d">>, <<" ">>, <<"\n">>, <<"!">> }

BrandExpected ==
    { Undefined, <<>>, <<"B", "u", "d">>, <<"B", "u", "d", "!">>,
      <<"B", "u", "d", " ", "L", "i", "t", "e">>, <<"!">> }

InitBrand ==
    /\ pc = "input"
    /\ text \in {Flatten(ts) : ts \in SeqsUpTo(BrandTokens, MaxBrandTokens)}
    /\ expected \in BrandExpected
    /\ formData = Undefined
    /\ confidence = 0
    /\ hist = <<>>
    /\ UiInit

ExtractBrandName ==
    /\ pc = "input"
    /\ hist' = <<extractBrandName(text, expected)>>
    /\ pc' = "brand"
    /\ UNCHANGED <<text, expected, formData, confidence, uiVars>>

ExtractProductClass ==
    /\ pc = "input"
    /\ hist' = <<extractProductClass(text, expected)>>
    /\ pc' = "class"
    /\ UNCHANGED <<text, expected, formData, confidence, uiVars>>

NextBrand == ExtractBrandName \/ ExtractProductClass

SpecBrand == InitBrand /\ [][NextBrand]_vars

\* The text with every line break turned into a space.
CollapseNewlines(t) == [i \in 1..Len(t) |-> IF t[i] \in LineTerminator THEN " " ELSE t[i]]

\* C8: the normalised text holds no line break, so an expected phrase whose
\* words a line break separates in the text is still found.
C8_NewlinesCollapsed ==
    pc \in {"brand", "class"} =>
        /\ Range(normalizeText(text)) \cap LineTerminator = {}
        /\ (Truthy(expected)
             /\ includes(normalizeText(CollapseNewlines(text)), normalizeText(expected)))
            => hist[1] = expected

\* s holds t from some offset on, character by character
OccursIn(t, s) ==
    \E k \in 0..(Len(s) - Len(t)) : \A j \in 1..Len(t) : s[k + j] = t[j]

\* C9: for a non-empty expected value both extractors return the expected
\* value itself exactly when the normalised text holds the normalised expected
\* value, and null otherwise; nothing read from the label is returned.
C9_ExpectedEchoed ==
    (pc \in {"brand", "class"} /\ Truthy(expected)) =>
        /\ hist[1] \in {expected, Null}
        /\ hist[1] = expected <=> OccursIn(normalizeText(expected), normalizeText(text))

\* a match that rests on case and punctuation being ignored
C9_Witness ==
    /\ pc = "class"
    /\ Truthy(expected)
    /\ hist[1] = expected
    /\ ~includes(text, expected)
    /\ Len(normalizeText(expected)) > 0

(***************************************************************************)
(* Regular expressions.  A pattern is a sequence of nodes, matched as the  *)
(* JavaScript engine matches it: leftmost start first, and at each start   *)
(* the greedy choice first, backtracking to the shorter ones.              *)
(*   q = "one"   one character of the class                                *)
(*   q = "star"  x*      q = "plus"  x+      q = "opt"  x?                 *)
(*   q = "grp?"  (?: ... )? over the next n nodes                          *)
(*   q = "("     start of capture group 1     q = ")"  its end             *)
(*   q = "\\b"   a word boundary                                           *)
(* The class is the set cls, or its complement when neg is TRUE.           *)
(***************************************************************************)
Node(q, cls, neg, n) == [q |-> q, cls |-> cls, neg |-> neg, n |-> n]
One(cls) == Node("one", cls, FALSE, 0)
Star(cls) == Node("star", cls, FALSE, 0)
Plus(cls) == Node("plus", cls, FALSE, 0)
Opt(cls) == Node("opt", cls, FALSE, 0)
OptGroup(n) == Node("grp?", {}, FALSE, n)
CapStart == Node("(", {}, FALSE, 0)
CapEnd == Node(")", {}, FALSE, 0)
WordBoundary == Node("\\b", {}, FALSE, 0)
\* . matches every character but a line terminator
AnyStar == Node("star", LineTerminator, TRUE, 0)

\* the characters of a word, one node each
Lit(w) == [i \in 1..Len(w) |-> One({w[i]})]

\* /nodes/ and /nodes/i
Regex(nodes) == [nodes |-> nodes, ci |-> FALSE]
RegexI(nodes) == [nodes |-> nodes, ci |-> TRUE]

NoMatch == [ok |-> FALSE, s |-> 0, e |-> 0, cs |-> 0, ce |-> 0]

InClass(c, nd) == (c \in nd.cls) # nd.neg

IsWordAt(t, i) == i >= 1 /\ i <= Len(t) /\ t[i] \in WordChar

\* the length of the run of class characters that starts at position i
RECURSIVE RunLen(_, _, _)
RunLen(t, i, nd) ==
    IF i <= Len(t) /\ InClass(t[i], nd) THEN 1 + RunLen(t, i + 1, nd) ELSE 0

\* nodes p.. of the pattern matched against t from position i on; cap holds
\* the bounds of the capture group seen so far.  The result names the position
\* after the match.
RECURSIVE MatchFrom(_, _, _, _, _), TryRun(_, _, _, _, _, _, _)
MatchFrom(nodes, t, p, i, cap) ==
    IF p > Len(nodes)
    THEN [ok |-> TRUE, s |-> 0, e |-> i, cs |-> cap[1], ce |-> cap[2]]
    ELSE LET nd == nodes[p] IN
         CASE nd.q = "one" ->
                IF i <= Len(t) /\ InClass(t[i], nd)
                THEN MatchFrom(nodes, t, p + 1, i + 1, cap)
                ELSE NoMatch
           [] nd.q = "star" -> TryRun(nodes, t, p, i, RunLen(t, i, nd), 0, cap)
           [] nd.q = "plus" -> TryRun(nodes, t, p, i, RunLen(t, i, nd), 1, cap)
           [] nd.q = "opt" ->
                TryRun(nodes, t, p, i,
                       IF i <= Len(t) /\ InClass(t[i], nd) THEN 1 ELSE 0, 0, cap)
           [] nd.q = "grp?" ->
                LET taken == MatchFrom(nodes, t, p + 1, i, cap)
                IN  IF taken.ok THEN taken
                    ELSE MatchFrom(nodes, t, p + 1 + nd.n, i, cap)
           [] nd.q = "(" -> MatchFrom(nodes, t, p + 1, i, <<i, cap[2]>>)
           [] nd.q = ")" -> MatchFrom(nodes, t, p + 1, i, <<cap[1], i>>)
           [] nd.q = "\\b" ->
                IF IsWordAt(t, i - 1) # IsWordAt(t, i)
                THEN MatchFrom(nodes, t, p + 1, i, cap)
                ELSE NoMatch

\* a quantified node taking j characters, then j - 1, ... down to lo
TryRun(nodes, t, p, i, j, lo, cap) ==
    IF j < lo THEN NoMatch
    ELSE LET r == MatchFrom(nodes, t, p + 1, i + j, cap)
         IN  IF r.ok THEN r ELSE TryRun(nodes, t, p, i, j - 1, lo, cap)

RECURSIVE SearchFrom(_, _, _)
SearchFrom(nodes, t, i) ==
    IF i > Len(t) + 1 THEN NoMatch
    ELSE LET r == MatchFrom(nodes, t, 1, i, <<0, 0>>)
         IN  IF r.ok THEN [r EXCEPT !.s = i] ELSE SearchFrom(nodes, t, i + 1)

\* String.prototype.match: the first match of the pattern in s.  Under the i
\* flag the pattern is written in lower case and s is lowered before matching.
match(s, re) == SearchFrom(re.nodes, IF re.ci THEN toLowerCase(s) ELSE s, 1)

\* RegExp.prototype.test
test(re, s) == match(s, re).ok

\* match[0] and match[1]
Matched(s, m) == SubSeq(s, m.s, m.e - 1)
Group1(s, m) == SubSeq(s, m.cs, m.ce - 1)

\* (\d+(?:\.\d+)?)
NumberGroup == <<CapStart, Plus(Digit), OptGroup(2), One({"."}), Plus(Digit), CapEnd>>
\* \s*
Spaces == <<Star(Whitespace)>>

(***************************************************************************)
(* Numbers.  A JavaScript number with at most two decimals is              *)
(* <<"number", h>>, h its hundredths.  The tokens of the texts are chosen  *)
(* so that no numeral of a text has more than two decimals.                *)
(***************************************************************************)
Number(h) == <<"number", h>>
Hundredths(v) == v[2]

DigitValue(c) == (CHOOSE i \in 1..10 : DigitChars[i] = c) - 1

RECURSIVE DigitsValue(_)
DigitsValue(ds) ==
    IF ds = <<>> THEN 0
    ELSE 10 * DigitsValue(SubSeq(ds, 1, Len(ds) - 1)) + DigitValue(ds[Len(ds)])

\* parseFloat of a numeral \d+(\.\d+)? with at most two decimals, in hundredths
parseFloat(s) ==
    LET dots == {i \in 1..Len(s) : s[i] = "."}
        whole == IF dots = {} THEN s ELSE SubSeq(s, 1, Min(dots) - 1)
        frac == IF dots = {} THEN <<>> ELSE SubSeq(s, Min(dots) + 1, Len(s))
        cents == SubSeq(frac \o <<"0", "0">>, 1, 2)
    IN  100 * DigitsValue(whole) + DigitsValue(cents)

(***************************************************************************)
(* Math.abs(percentage - expectedAlcohol) <= 0.1 in IEEE-754 doubles.      *)
(* The double nearest k/100 is k/100 + RoundingError(k); the subtraction   *)
(* of two such doubles that are 0.1 apart is rounded to the doubles near   *)
(* 0.1, whose spacing is 2^-56, and the result is compared with the double *)
(* nearest 0.1.  Errors are counted in units of 2^-59 / 25.                *)
(***************************************************************************)
RECURSIVE Pow2(_)
Pow2(n) == IF n = 0 THEN 1 ELSE 2 * Pow2(n - 1)

RECURSIVE Pow2Mod25(_)
Pow2Mod25(n) == IF n = 0 THEN 1 ELSE (2 * Pow2Mod25(n - 1)) % 25

\* the binary exponent e of k/100: 2^e <= k/100 < 2^(e+1), for k >= 1
RECURSIVE ExponentUp(_, _), ExponentDown(_, _)
ExponentUp(k, e) == IF k < 200 * Pow2(e) THEN e ELSE ExponentUp(k, e + 1)
ExponentDown(k, e) == IF k * Pow2(0 - e) >= 100 THEN e ELSE ExponentDown(k, e - 1)
Exponent(k) == IF k >= 100 THEN ExponentUp(k, 0) ELSE ExponentDown(k, 0 - 1)

\* (double nearest k/100) - k/100, in units of 2^-59 / 25: k/100 scaled to a
\* 53-bit significand is k * 2^(s-2) / 25, rounded to the nearest integer
RoundingError(k) ==
    IF k = 0 THEN 0
    ELSE LET s == 52 - Exponent(k)
             rem == ((k % 25) * Pow2Mod25(s - 2)) % 25
             ulps25 == IF rem <= 12 THEN 0 - rem ELSE 25 - rem
         IN  ulps25 * Pow2(59 - s)

\* the tolerance 0.1, in hundredths
Tolerance == 10

\* A plausible slip: the tolerance is compared in exact decimal arithmetic.
AbsDiffWithinToleranceExact(a, b) ==
    (IF a >= b THEN a - b ELSE b - a) <= Tolerance

\* Math.abs(a - b) <= 0.1 for the doubles nearest a/100 and b/100
AbsDiffWithinTolerance(a, b) ==
    LET hi == IF a >= b THEN a ELSE b
        lo == IF a >= b THEN b ELSE a
    IN  IF hi - lo # Tolerance THEN hi - lo < Tolerance
        ELSE RoundingError(hi) - RoundingError(lo) - RoundingError(Tolerance) <= 100

(***************************************************************************)
(* extractAlcoholPercentage                                                *)
(***************************************************************************)
\* percentage <= 100, in hundredths
MaxPercentage == 10000

alcoholPatterns ==
    << \* /(\d+(?:\.\d+)?)\s*%/i
       RegexI(NumberGroup \o Spaces \o Lit(<<"%">>)),
       \* /(\d+(?:\.\d+)?)\s*abv/i
       RegexI(NumberGroup \o Spaces \o Lit(<<"a", "b", "v">>)),
       \* /(\d+(?:\.\d+)?)\s*alc\/vol/i
       RegexI(NumberGroup \o Spaces \o Lit(<<"a", "l", "c", "/", "v", "o", "l">>)),
       \* /alcohol\s*by\s*volume[:\s]*(\d+(?:\.\d+)?)/i
       RegexI(Lit(<<"a", "l", "c", "o", "h", "o", "l">>) \o Spaces
              \o Lit(<<"b", "y">>) \o Spaces
              \o Lit(<<"v", "o", "l", "u", "m", "e">>)
              \o <<Star(Whitespace \cup {":"})>> \o NumberGroup),
       \* /alc\.?\s*(\d+(?:\.\d+)?)\s*%/i
       RegexI(Lit(<<"a", "l", "c">>) \o <<Opt({"."})>> \o Spaces
              \o NumberGroup \o Spaces \o Lit(<<"%">>)) >>

\* for (const pattern of alcoholPatterns), from pattern k on
RECURSIVE AlcoholFromPattern(_, _, _)
AlcoholFromPattern(t, expectedAlcohol, k) ==
    IF k > Len(alcoholPatterns) THEN Null
    ELSE LET m == match(t, alcoholPatterns[k])
             percentage == parseFloat(Group1(t, m))
         IN  IF /\ m.ok
                /\ percentage >= 0 /\ percentage <= MaxPercentage
                /\ AbsDiffWithinTolerance(percentage, Hundredths(expectedAlcohol))
             THEN Number(percentage)
             ELSE AlcoholFromPattern(t, expectedAlcohol, k + 1)

\* A plausible slip: without an expected value the first percentage on the
\* label is returned, as the one-argument extractAlcoholPercentage did.
extractAlcoholPercentageDiscovering(t, expectedAlcohol) ==
    IF expectedAlcohol # Undefined
    THEN AlcoholFromPattern(t, expectedAlcohol, 1)
    ELSE LET m == match(t, alcoholPatterns[1])
         IN  IF m.ok /\ parseFloat(Group1(t, m)) <= MaxPercentage
             THEN Number(parseFloat(Group1(t, m)))
             ELSE Null

\* extractAlcoholPercentage(text, expectedAlcohol)
extractAlcoholPercentage(t, expectedAlcohol) ==
    IF expectedAlcohol # Undefined
    THEN AlcoholFromPattern(t, expectedAlcohol, 1)
    ELSE Null

AlcoholTokens ==
    { <<"1", "2", ".", "5", "%">>, <<"5", ".", "4", " ">>, <<"0", "%">>,
      <<"1", "0", "0", ".", "1", "%">>, <<"4", "0", "%">>,
      <<"1", "0", "0", "%", " ">>, <<"A", "B", "V">>, <<"a", "l", "c", ".", " ">>,
      <<"a", "l", "c", "/", "v", "o", "l">>,
      <<"a", "l", "c", "o", "h", "o", "l", " ", "b", "y", " ",
        "v", "o", "l", "u", "m", "e", ":", " ">> }

AlcoholExpected ==
    { Undefined, Number(0), Number(530), Number(1240), Number(1260),
      Number(1261), Number(4000), Number(10000) }

InitAlcohol ==
    /\ pc = "input"
    /\ text \in {Flatten(ts) : ts \in SeqsUpTo(AlcoholTokens, MaxAlcoholTokens)}
    /\ expected \in AlcoholExpected
    /\ formData = Undefined
    /\ confidence = 0
    /\ hist = <<>>
    /\ UiInit

ExtractAlcoholPercentage ==
    /\ pc = "input"
    /\ hist' = <<extractAlcoholPercentage(text, expected)>>
    /\ pc' = "alcohol"
    /\ UNCHANGED <<text, expected, formData, confidence, uiVars>>

NextAlcohol == ExtractAlcoholPercentage

SpecAlcohol == InitAlcohol /\ [][NextAlcohol]_vars

\* The numbers the loop parses: the capture of the first match of each pattern,
\* kept when it lies within the range the loop accepts.
Candidates(t) ==
    {c \in {parseFloat(Group1(t, match(t, alcoholPatterns[k]))) :
                k \in {j \in 1..Len(alcoholPatterns) : match(t, alcoholPatterns[j]).ok}} :
        c >= 0 /\ c <= MaxPercentage}

Distance(a, b) == IF a >= b THEN a - b ELSE b - a

\* C4: with an expected value, the result is a parsed candidate within 0.1 of
\* it, a candidate exactly 0.1 away being accepted on either side, and the
\* result is null only when no candidate is that near.
C4_ToleranceInclusive ==
    (pc = "alcohol" /\ expected # Undefined) =>
        LET near == {c \in Candidates(text) :
                        Distance(c, Hundredths(expected)) <= Tolerance}
        IN  /\ hist[1] # Null => Hundredths(hist[1]) \in near
            /\ hist[1] = Null <=> near = {}

\* C5: a label value of 12.5 is rejected against an expected 12.6 and accepted
\* against an expected 12.4.
C5_AsymmetricBoundary ==
    (pc = "alcohol" /\ Candidates(text) = {1250}) =>
        /\ expected = Number(1260) => hist[1] = Null
        /\ expected = Number(1240) => hist[1] = Number(1250)

\* C6: no value outside (0, 100] is returned: 0 and every value above 100 are
\* rejected whatever the expected value.
C6_RangeExcludesZero ==
    (pc = "alcohol" /\ hist[1] # Null) =>
        Hundredths(hist[1]) > 0 /\ Hundredths(hist[1]) <= MaxPercentage

RECURSIVE PercentagesOfPattern(_, _, _)
PercentagesOfPattern(t, k, i) ==
    LET m == SearchFrom(alcoholPatterns[k].nodes, toLowerCase(t), i)
    IN  IF ~m.ok THEN {}
        ELSE {parseFloat(Group1(t, m))} \cup PercentagesOfPattern(t, k, m.e)

\* the percentages the text states, at any occurrence of any pattern
PercentagesStated(t) ==
    UNION {PercentagesOfPattern(t, k, 1) : k \in 1..Len(alcoholPatterns)}

\* C25: when some occurrence of some pattern in the text carries a number in
\* range and nearer than 0.1 to the expected value, the result is not null,
\* an earlier occurrence with another number notwithstanding.
C25_LaterOccurrenceFound ==
    (/\ pc = "alcohol"
     /\ expected # Undefined
     /\ \E c \in PercentagesStated(text) :
            c > 0 /\ c <= MaxPercentage /\ Distance(c, Hundredths(expected)) < Tolerance) =>
        hist[1] # Null

(***************************************************************************)
(* extractVolume                                                           *)
(***************************************************************************)
\* /(\d+(?:\.\d+)?)/
NumberRegex == Regex(NumberGroup)

\* \n\s*
NewlineSpaces == <<One({"\n"}), Star(Whitespace)>>
\* fl\.?\s*oz
FlOz == Lit(<<"f", "l">>) \o <<Opt({"."})>> \o Spaces \o Lit(<<"o", "z">>)

volumePatterns ==
    << \* /(\d+(?:\.\d+)?)\s*cl/i
       RegexI(NumberGroup \o Spaces \o Lit(<<"c", "l">>)),
       \* /(\d+(?:\.\d+)?)\s*ml/i
       RegexI(NumberGroup \o Spaces \o Lit(<<"m", "l">>)),
       \* /(\d+(?:\.\d+)?)\s*liter/i
       RegexI(NumberGroup \o Spaces \o Lit(<<"l", "i", "t", "e", "r">>)),
       \* /(\d+(?:\.\d+)?)\s*l/i
       RegexI(NumberGroup \o Spaces \o Lit(<<"l">>)),
       \* /(\d+(?:\.\d+)?)\s*ounce/i
       RegexI(NumberGroup \o Spaces \o Lit(<<"o", "u", "n", "c", "e">>)),
       \* /(\d+(?:\.\d+)?)\s*oz/i
       RegexI(NumberGroup \o Spaces \o Lit(<<"o", "z">>)),
       \* /(\d+(?:\.\d+)?)\s*fl\s*oz/i
       RegexI(NumberGroup \o Spaces \o Lit(<<"f", "l">>) \o Spaces \o Lit(<<"o", "z">>)),
       \* /(\d+(?:\.\d+)?)\s*fl\.?\s*oz/i
       RegexI(NumberGroup \o Spaces \o FlOz),
       \* /(\d+(?:\.\d+)?)\s*fl\.oz/i
       RegexI(NumberGroup \o Spaces \o Lit(<<"f", "l", ".", "o", "z">>)),
       \* /(\d+(?:\.\d+)?)\s*\n\s*fl\.?\s*oz/i
       RegexI(NumberGroup \o Spaces \o NewlineSpaces \o FlOz),
       \* /(\d+(?:\.\d+)?)\s*\n\s*oz/i
       RegexI(NumberGroup \o Spaces \o NewlineSpaces \o Lit(<<"o", "z">>)),
       \* /(\d+(?:\.\d+)?)\s*\n\s*ml/i
       RegexI(NumberGroup \o Spaces \o NewlineSpaces \o Lit(<<"m", "l">>)),
       \* /(\d+(?:\.\d+)?)\s*\n\s*cl/i
       RegexI(NumberGroup \o Spaces \o NewlineSpaces \o Lit(<<"c", "l">>)) >>

unitPatterns ==
    << \* /fl\.?\s*oz/i, /oz/i, /ml/i, /cl/i, /liter/i, /l\b/i
       RegexI(FlOz),
       RegexI(Lit(<<"o", "z">>)),
       RegexI(Lit(<<"m", "l">>)),
       RegexI(Lit(<<"c", "l">>)),
       RegexI(Lit(<<"l", "i", "t", "e", "r">>)),
       RegexI(Lit(<<"l">>) \o <<WordBoundary>>) >>

\* replace(/\n/g, ' ')
replaceNewlines(s) == [i \in 1..Len(s) |-> IF s[i] = "\n" THEN " " ELSE s[i]]

\* String.prototype.split on a one-character separator
RECURSIVE split(_, _)
split(s, sep) ==
    LET at == {i \in 1..Len(s) : s[i] = sep}
    IN  IF at = {} THEN <<s>>
        ELSE <<SubSeq(s, 1, Min(at) - 1)>> \o split(SubSeq(s, Min(at) + 1, Len(s)), sep)

\* Array.prototype.join
RECURSIVE join(_, _)
join(ss, sep) ==
    IF ss = <<>> THEN <<>>
    ELSE IF Len(ss) = 1 THEN ss[1]
    ELSE ss[1] \o sep \o join(Tail(ss), sep)

\* normalizedFound.includes(normalizedExpected) || normalizedExpected.includes(normalizedFound)
EitherIncludes(foundVolume, expectedVolume) ==
    \/ includes(normalizeText(foundVolume), normalizeText(expectedVolume))
    \/ includes(normalizeText(expectedVolume), normalizeText(foundVolume))

\* the numerals of the two strings are the same string
SameNumber(foundVolume, expectedVolume) ==
    LET numericMatch == match(foundVolume, NumberRegex)
        expectedNumericMatch == match(expectedVolume, NumberRegex)
    IN  /\ numericMatch.ok
        /\ expectedNumericMatch.ok
        /\ Group1(foundVolume, numericMatch) = Group1(expectedVolume, expectedNumericMatch)

\* for (const pattern of volumePatterns), from pattern k on
RECURSIVE VolumeFromPattern(_, _, _)
VolumeFromPattern(t, expectedVolume, k) ==
    IF k > Len(volumePatterns) THEN Null
    ELSE LET m == match(t, volumePatterns[k])
             foundVolume == trim(replaceNewlines(Matched(t, m)))
         IN  IF m.ok /\ (\/ EitherIncludes(foundVolume, expectedVolume)
                         \/ SameNumber(foundVolume, expectedVolume))
             THEN foundVolume
             ELSE VolumeFromPattern(t, expectedVolume, k + 1)

\* for (const unitPattern of unitPatterns), from pattern k on
RECURSIVE VolumeFromUnit(_, _, _, _)
VolumeFromUnit(number, searchText, expectedVolume, k) ==
    IF k > Len(unitPatterns) THEN Null
    ELSE LET unitMatch == match(searchText, unitPatterns[k])
             foundVolume == number \o <<" ">> \o Matched(searchText, unitMatch)
         IN  IF unitMatch.ok /\ EitherIncludes(foundVolume, expectedVolume)
             THEN foundVolume
             ELSE VolumeFromUnit(number, searchText, expectedVolume, k + 1)

\* for (let i = 0; i < lines.length; i++), from line i on (lines are counted from 1)
RECURSIVE VolumeFromLine(_, _, _)
VolumeFromLine(lines, expectedVolume, i) ==
    IF i > Len(lines) THEN Null
    ELSE LET line == trim(lines[i])
             numberMatch == match(line, NumberRegex)
             number == Group1(line, numberMatch)
             expectedNumberMatch == match(expectedVolume, NumberRegex)
             \* [lines[i], lines[i - 1], lines[i + 1]].filter(Boolean)
             searchLines ==
                 SelectSeq(<<lines[i]>>
                           \o (IF i > 1 THEN <<lines[i - 1]>> ELSE <<>>)
                           \o (IF i < Len(lines) THEN <<lines[i + 1]>> ELSE <<>>),
                           LAMBDA l : l # <<>>)
             searchText == join(searchLines, <<" ">>)
             found == VolumeFromUnit(number, searchText, expectedVolume, 1)
         IN  IF /\ numberMatch.ok
                /\ expectedNumberMatch.ok
                /\ number = Group1(expectedVolume, expectedNumberMatch)
                /\ found # Null
             THEN found
             ELSE VolumeFromLine(lines, expectedVolume, i + 1)

\* A plausible slip: without an expected volume the first volume on the label
\* is returned, as the one-argument extractVolume did.
extractVolumeDiscovering(t, expectedVolume) ==
    IF ~Truthy(expectedVolume)
    THEN LET m == match(t, volumePatterns[2])
         IN  IF m.ok THEN trim(Matched(t, m)) ELSE Null
    ELSE IF includes(normalizeText(t), normalizeText(expectedVolume)) THEN expectedVolume
    ELSE LET byPattern == VolumeFromPattern(t, expectedVolume, 1)
         IN  IF byPattern # Null THEN byPattern
             ELSE VolumeFromLine(split(t, "\n"), expectedVolume, 1)

\* extractVolume(text, expectedVolume)
extractVolume(t, expectedVolume) ==
    IF ~Truthy(expectedVolume) THEN Null
    ELSE IF includes(normalizeText(t), normalizeText(expectedVolume)) THEN expectedVolume
    ELSE LET byPattern == VolumeFromPattern(t, expectedVolume, 1)
         IN  IF byPattern # Null THEN byPattern
             ELSE VolumeFromLine(split(t, "\n"), expectedVolume, 1)

VolumeTokens ==
    { <<"1", "2">>, <<"2">>, <<"1", "6">>, <<" ">>, <<"\n">>, <<"f", "l", "o", "z">>,
      <<"F", "L", " ", "O", "Z">>, <<"m", "l">>, <<".">> }

VolumeExpected ==
    { Undefined, <<>>, <<"1", "2", " ", "F", "L", " ", "O", "Z">>,
      <<"1", "2", " ", "f", "l", ".", " ", "o", "z", ".">> }

InitVolume ==
    /\ pc = "input"
    /\ text \in {Flatten(ts) : ts \in SeqsUpTo(VolumeTokens, MaxVolumeTokens)}
    /\ expected \in VolumeExpected
    /\ formData = Undefined
    /\ confidence = 0
    /\ hist = <<>>
    /\ UiInit

ExtractVolume ==
    /\ pc = "input"
    /\ hist' = <<extractVolume(text, expected)>>
    /\ pc' = "volume"
    /\ UNCHANGED <<text, expected, formData, confidence, uiVars>>

NextVolume == ExtractVolume

SpecVolume == InitVolume /\ [][NextVolume]_vars

\* the string in lower case without its spaces, line breaks and periods
Squeeze(s) == SelectSeq(toLowerCase(s), LAMBDA c : c \notin Whitespace \cup {"."})

\* C10: when the text holds the expected volume up to spaces, line breaks and
\* periods, extractVolume returns the expected volume string itself.
C10_VolumeEchoed ==
    (pc = "volume" /\ Truthy(expected) /\ includes(Squeeze(text), Squeeze(expected)))
        => hist[1] = expected

(***************************************************************************)
(* checkGovernmentWarning                                                  *)
(***************************************************************************)
\* the words of a phrase with \s* between them
RECURSIVE Words(_)
Words(ws) ==
    IF Len(ws) = 1 THEN Lit(ws[1])
    ELSE Lit(ws[1]) \o Spaces \o Words(Tail(ws))

warningPatterns ==
    << \* US Government warnings
       \* /government\s*warning/gi
       RegexI(Words(<<<<"g", "o", "v", "e", "r", "n", "m", "e", "n", "t">>, <<"w", "a", "r", "n", "i", "n", "g">>>>)),
       \* /pregnant\s*women/gi
       RegexI(Words(<<<<"p", "r", "e", "g", "n", "a", "n", "t">>, <<"w", "o", "m", "e", "n">>>>)),
       \* /driving\s*under\s*the\s*influence/gi
       RegexI(Words(<<<<"d", "r", "i", "v", "i", "n", "g">>, <<"u", "n", "d", "e", "r">>, <<"t", "h", "e">>, <<"i", "n", "f", "l", "u", "e", "n", "c", "e">>>>)),
       \* /health\s*risks/gi
       RegexI(Words(<<<<"h", "e", "a", "l", "t", "h">>, <<"r", "i", "s", "k", "s">>>>)),
       \* /may\s*cause\s*birth\s*defects/gi
       RegexI(Words(<<<<"m", "a", "y">>, <<"c", "a", "u", "s", "e">>, <<"b", "i", "r", "t", "h">>, <<"d", "e", "f", "e", "c", "t", "s">>>>)),
       \* /impair\s*ability/gi
       RegexI(Words(<<<<"i", "m", "p", "a", "i", "r">>, <<"a", "b", "i", "l", "i", "t", "y">>>>)),
       \* /operate\s*machinery/gi
       RegexI(Words(<<<<"o", "p", "e", "r", "a", "t", "e">>, <<"m", "a", "c", "h", "i", "n", "e", "r", "y">>>>)),
       \* /may\s*cause\s*health\s*problems/gi
       RegexI(Words(<<<<"m", "a", "y">>, <<"c", "a", "u", "s", "e">>, <<"h", "e", "a", "l", "t", "h">>, <<"p", "r", "o", "b", "l", "e", "m", "s">>>>)),
       \* /alcohol\s*abuse\s*is\s*dangerous/gi
       RegexI(Words(<<<<"a", "l", "c", "o", "h", "o", "l">>, <<"a", "b", "u", "s", "e">>, <<"i", "s">>, <<"d", "a", "n", "g", "e", "r", "o", "u", "s">>>>)),
       \* /drink\s*responsibly/gi
       RegexI(Words(<<<<"d", "r", "i", "n", "k">>, <<"r", "e", "s", "p", "o", "n", "s", "i", "b", "l", "y">>>>)),
       \* /not\s*for\s*sale\s*to\s*minors/gi
       RegexI(Words(<<<<"n", "o", "t">>, <<"f", "o", "r">>, <<"s", "a", "l", "e">>, <<"t", "o">>, <<"m", "i", "n", "o", "r", "s">>>>)),
       \* /under\s*21/gi
       RegexI(Words(<<<<"u", "n", "d", "e", "r">>, <<"2", "1">>>>)),
       \* /age\s*21/gi
       RegexI(Words(<<<<"a", "g", "e">>, <<"2", "1">>>>)),
       \* /warning.*pregnant/gi
       RegexI(Lit(<<"w", "a", "r", "n", "i", "n", "g">>) \o <<AnyStar>> \o Lit(<<"p", "r", "e", "g", "n", "a", "n", "t">>)),
       \* /warning.*driving/gi
       RegexI(Lit(<<"w", "a", "r", "n", "i", "n", "g">>) \o <<AnyStar>> \o Lit(<<"d", "r", "i", "v", "i", "n", "g">>)),
       \* /warning.*health/gi
       RegexI(Lit(<<"w", "a", "r", "n", "i", "n", "g">>) \o <<AnyStar>> \o Lit(<<"h", "e", "a", "l", "t", "h">>)),
       \* Partial/truncated warnings that might appear in OCR
       \* /pregnant/gi
       RegexI(Lit(<<"p", "r", "e", "g", "n", "a", "n", "t">>)),
       \* /driving/gi
       RegexI(Lit(<<"d", "r", "i", "v", "i", "n", "g">>)),
       \* /health/gi
       RegexI(Lit(<<"h", "e", "a", "l", "t", "h">>)),
       \* /warning/gi
       RegexI(Lit(<<"w", "a", "r", "n", "i", "n", "g">>)),
       \* /minors/gi
       RegexI(Lit(<<"m", "i", "n", "o", "r", "s">>)),
       \* /responsibly/gi
       RegexI(Lit(<<"r", "e", "s", "p", "o", "n", "s", "i", "b", "l", "y">>)),
       \* French/European warnings
       \* /abus\s*dangereux/gi
       RegexI(Words(<<<<"a", "b", "u", "s">>, <<"d", "a", "n", "g", "e", "r", "e", "u", "x">>>>)),
       \* /consommer\s*avec\s*modération/gi
       RegexI(Words(<<<<"c", "o", "n", "s", "o", "m", "m", "e", "r">>, <<"a", "v", "e", "c">>, <<"m", "o", "d", "é", "r", "a", "t", "i", "o", "n">>>>)),
       \* /interdit\s*aux\s*moins\s*de\s*18\s*ans/gi
       RegexI(Words(<<<<"i", "n", "t", "e", "r", "d", "i", "t">>, <<"a", "u", "x">>, <<"m", "o", "i", "n", "s">>, <<"d", "e">>, <<"1", "8">>, <<"a", "n", "s">>>>)),
       \* /déconseillé\s*aux\s*femmes\s*enceintes/gi
       RegexI(Words(<<<<"d", "é", "c", "o", "n", "s", "e", "i", "l", "l", "é">>, <<"a", "u", "x">>, <<"f", "e", "m", "m", "e", "s">>, <<"e", "n", "c", "e", "i", "n", "t", "e", "s">>>>)),
       \* /l'abus\s*d'alcool\s*est\s*dangereux/gi
       RegexI(Words(<<<<"l", "'", "a", "b", "u", "s">>, <<"d", "'", "a", "l", "c", "o", "o", "l">>, <<"e", "s", "t">>, <<"d", "a", "n", "g", "e", "r", "e", "u", "x">>>>)),
       \* /à\s*consommer\s*avec\s*modération/gi
       RegexI(Words(<<<<"à">>, <<"c", "o", "n", "s", "o", "m", "m", "e", "r">>, <<"a", "v", "e", "c">>, <<"m", "o", "d", "é", "r", "a", "t", "i", "o", "n">>>>)),
       \* /interdit\s*aux\s*moins\s*de\s*dix-huit\s*ans/gi
       RegexI(Words(<<<<"i", "n", "t", "e", "r", "d", "i", "t">>, <<"a", "u", "x">>, <<"m", "o", "i", "n", "s">>, <<"d", "e">>, <<"d", "i", "x", "-", "h", "u", "i", "t">>, <<"a", "n", "s">>>>)),
       \* /déconseillé\s*aux\s*femmes\s*enceintes/gi
       RegexI(Words(<<<<"d", "é", "c", "o", "n", "s", "e", "i", "l", "l", "é">>, <<"a", "u", "x">>, <<"f", "e", "m", "m", "e", "s">>, <<"e", "n", "c", "e", "i", "n", "t", "e", "s">>>>)),
       \* Additional European patterns
       \* /excessive\s*consumption/gi
       RegexI(Words(<<<<"e", "x", "c", "e", "s", "s", "i", "v", "e">>, <<"c", "o", "n", "s", "u", "m", "p", "t", "i", "o", "n">>>>)),
       \* /harmful\s*to\s*health/gi
       RegexI(Words(<<<<"h", "a", "r", "m", "f", "u", "l">>, <<"t", "o">>, <<"h", "e", "a", "l", "t", "h">>>>)),
       \* /drink\s*in\s*moderation/gi
       RegexI(Words(<<<<"d", "r", "i", "n", "k">>, <<"i", "n">>, <<"m", "o", "d", "e", "r", "a", "t", "i", "o", "n">>>>)),
       \* /not\s*for\s*children/gi
       RegexI(Words(<<<<"n", "o", "t">>, <<"f", "o", "r">>, <<"c", "h", "i", "l", "d", "r", "e", "n">>>>)),
       \* /18\+/gi
       RegexI(Lit(<<"1", "8", "+">>)),
       \* /21\+/gi
       RegexI(Lit(<<"2", "1", "+">>)),
       \* Malay/Indonesian warnings (for Jack Daniels and other international products)
       \* /meminum\s*arak\s*boleh\s*membahayakan\s*kesihatan/gi
       RegexI(Words(<<<<"m", "e", "m", "i", "n", "u", "m">>, <<"a", "r", "a", "k">>, <<"b", "o", "l", "e", "h">>, <<"m", "e", "m", "b", "a", "h", "a", "y", "a", "k", "a", "n">>, <<"k", "e", "s", "i", "h", "a", "t", "a", "n">>>>)),
       \* /meminum\s*arak/gi
       RegexI(Words(<<<<"m", "e", "m", "i", "n", "u", "m">>, <<"a", "r", "a", "k">>>>)),
       \* /membahayakan\s*kesihatan/gi
       RegexI(Words(<<<<"m", "e", "m", "b", "a", "h", "a", "y", "a", "k", "a", "n">>, <<"k", "e", "s", "i", "h", "a", "t", "a", "n">>>>)),
       \* /bahaya\s*untuk\s*kesehatan/gi
       RegexI(Words(<<<<"b", "a", "h", "a", "y", "a">>, <<"u", "n", "t", "u", "k">>, <<"k", "e", "s", "e", "h", "a", "t", "a", "n">>>>)),
       \* /minuman\s*beralkohol/gi
       RegexI(Words(<<<<"m", "i", "n", "u", "m", "a", "n">>, <<"b", "e", "r", "a", "l", "k", "o", "h", "o", "l">>>>)),
       \* Spanish warnings
       \* /consumir\s*con\s*moderación/gi
       RegexI(Words(<<<<"c", "o", "n", "s", "u", "m", "i", "r">>, <<"c", "o", "n">>, <<"m", "o", "d", "e", "r", "a", "c", "i", "ó", "n">>>>)),
       \* /abuso\s*peligroso/gi
       RegexI(Words(<<<<"a", "b", "u", "s", "o">>, <<"p", "e", "l", "i", "g", "r", "o", "s", "o">>>>)),
       \* /prohibido\s*menores/gi
       RegexI(Words(<<<<"p", "r", "o", "h", "i", "b", "i", "d", "o">>, <<"m", "e", "n", "o", "r", "e", "s">>>>)),
       \* /embarazadas/gi
       RegexI(Lit(<<"e", "m", "b", "a", "r", "a", "z", "a", "d", "a", "s">>)),
       \* German warnings
       \* /alkoholmissbrauch\s*gefährlich/gi
       RegexI(Words(<<<<"a", "l", "k", "o", "h", "o", "l", "m", "i", "s", "s", "b", "r", "a", "u", "c", "h">>, <<"g", "e", "f", "ä", "h", "r", "l", "i", "c", "h">>>>)),
       \* /mit\s*maß\s*genießen/gi
       RegexI(Words(<<<<"m", "i", "t">>, <<"m", "a", "ß">>, <<"g", "e", "n", "i", "e", "ß", "e", "n">>>>)),
       \* /schwangeren\s*frauen/gi
       RegexI(Words(<<<<"s", "c", "h", "w", "a", "n", "g", "e", "r", "e", "n">>, <<"f", "r", "a", "u", "e", "n">>>>)),
       \* Italian warnings
       \* /abuso\s*pericoloso/gi
       RegexI(Words(<<<<"a", "b", "u", "s", "o">>, <<"p", "e", "r", "i", "c", "o", "l", "o", "s", "o">>>>)),
       \* /consumare\s*con\s*moderazione/gi
       RegexI(Words(<<<<"c", "o", "n", "s", "u", "m", "a", "r", "e">>, <<"c", "o", "n">>, <<"m", "o", "d", "e", "r", "a", "z", "i", "o", "n", "e">>>>)),
       \* /donne\s*incinte/gi
       RegexI(Words(<<<<"d", "o", "n", "n", "e">>, <<"i", "n", "c", "i", "n", "t", "e">>>>)),
       \* Portuguese warnings
       \* /abuso\s*perigoso/gi
       RegexI(Words(<<<<"a", "b", "u", "s", "o">>, <<"p", "e", "r", "i", "g", "o", "s", "o">>>>)),
       \* /consumir\s*com\s*moderação/gi
       RegexI(Words(<<<<"c", "o", "n", "s", "u", "m", "i", "r">>, <<"c", "o", "m">>, <<"m", "o", "d", "e", "r", "a", "ç", "ã", "o">>>>)),
       \* /mulheres\s*grávidas/gi
       RegexI(Words(<<<<"m", "u", "l", "h", "e", "r", "e", "s">>, <<"g", "r", "á", "v", "i", "d", "a", "s">>>>)),
       \* Generic international patterns
       \* /health\s*warning/gi
       RegexI(Words(<<<<"h", "e", "a", "l", "t", "h">>, <<"w", "a", "r", "n", "i", "n", "g">>>>)),
       \* /alcohol\s*warning/gi
       RegexI(Words(<<<<"a", "l", "c", "o", "h", "o", "l">>, <<"w", "a", "r", "n", "i", "n", "g">>>>)),
       \* /drinking\s*warning/gi
       RegexI(Words(<<<<"d", "r", "i", "n", "k", "i", "n", "g">>, <<"w", "a", "r", "n", "i", "n", "g">>>>)),
       \* /consumption\s*warning/gi
       RegexI(Words(<<<<"c", "o", "n", "s", "u", "m", "p", "t", "i", "o", "n">>, <<"w", "a", "r", "n", "i", "n", "g">>>>)) >>

\* for (const pattern of warningPatterns), from pattern k on
RECURSIVE WarningFromPattern(_, _)
WarningFromPattern(t, k) ==
    IF k > Len(warningPatterns) THEN [found |-> FALSE, text |-> Undefined]
    ELSE LET m == match(t, warningPatterns[k])
         IN  IF m.ok THEN [found |-> TRUE, text |-> Matched(t, m)]
             ELSE WarningFromPattern(t, k + 1)

\* A plausible slip: the loop over the patterns starts one entry late.
checkGovernmentWarningFromSecond(t) == WarningFromPattern(t, 2)

\* checkGovernmentWarning(text)
checkGovernmentWarning(t) == WarningFromPattern(t, 1)

MaxWarningTokens == 2  \* longest text handed to checkGovernmentWarning, in tokens

WarningTokens ==
    { <<"G", "O", "V", "E", "R", "N", "M", "E", "N", "T", " ", "W", "A", "R", "N", "I", "N", "G", " ">>,
      <<"g", "o", "v", "e", "r", "n", "m", "e", "n", "t", "\n", "w", "a", "r", "n", "i", "n", "g", " ">>,
      <<"w", "a", "r", "n", "i", "n", "g", " ">>,
      <<"w", "a", "r", "n", "i", "n", "g", "\n">>,
      <<"p", "r", "e", "g", "n", "a", "n", "t", " ", "w", "o", "m", "e", "n", " ">>,
      <<"H", "e", "a", "l", "t", "h", " ">>,
      <<"N", "o", " ", "w", "a", "r", "n", "i", "n", "g", " ", "h", "e", "r", "e">>,
      <<"n", "o", " ", "w", "a", "r", "n", "i", "n", "g">>,
      <<"B", "e", "e", "r", " ">>,
      <<"1", "8", "+", " ">> }

InitWarning ==
    /\ pc = "input"
    /\ text \in {Flatten(ts) : ts \in SeqsUpTo(WarningTokens, MaxWarningTokens)}
    /\ expected = Undefined
    /\ formData = Undefined
    /\ confidence = 0
    /\ hist = <<>>
    /\ UiInit

CheckGovernmentWarning ==
    /\ pc = "input"
    /\ hist' = <<checkGovernmentWarning(text)>>
    /\ pc' = "warning"
    /\ UNCHANGED <<text, expected, formData, confidence, uiVars>>

NextWarning == CheckGovernmentWarning

SpecWarning == InitWarning /\ [][NextWarning]_vars

\* the patterns of the list that match somewhere in t, by their place in the list
MatchingPatterns(t) == {k \in 1..Len(warningPatterns) : test(warningPatterns[k], t)}

\* C13: found is true exactly when some pattern of the list matches the text,
\* the snippet being the first match of the earliest matching pattern of the
\* list; when none matches, found is false and there is no snippet.
C13_EarliestPatternFirstMatch ==
    pc = "warning" =>
        LET hits == MatchingPatterns(text)
        IN  /\ hist[1].found <=> hits # {}
            /\ hits = {} => hist[1].text = Undefined
            /\ hits # {} =>
                   hist[1].text = Matched(text, match(text, warningPatterns[Min(hits)]))

\* the earliest matching pattern is not the one matching leftmost in the text
C13_Witness ==
    /\ pc = "warning"
    /\ hist[1].found
    /\ \E k \in MatchingPatterns(text) :
           match(text, warningPatterns[k]).s < match(text, warningPatterns[Min(MatchingPatterns(text))]).s

\* C14: a text holding the word "warning" without a government-warning phrase
\* ("no warning", "No warning here") is reported with found = false.
C14_BareWarningNotFound ==
    (/\ pc = "warning"
     /\ text \in { <<"n", "o", " ", "w", "a", "r", "n", "i", "n", "g">>,
                   <<"N", "o", " ", "w", "a", "r", "n", "i", "n", "g", " ", "h", "e", "r", "e">> })
        => ~hist[1].found

(***************************************************************************)
(* verifyLabel                                                             *)
(***************************************************************************)
\* an optional outcome that is not reported: the property holds undefined
UndefinedOutcome == [undefined |-> TRUE]

\* value || ''
OrEmpty(v) == IF Truthy(v) THEN v ELSE <<>>

\* A plausible slip: the government warning is required for the overall match.
overallMatchWithWarning(brandNameMatch, productClassMatch, alcoholContentMatch, netContentsMatch, governmentWarning) ==
    /\ brandNameMatch
    /\ productClassMatch
    /\ alcoholContentMatch
    /\ netContentsMatch
    /\ governmentWarning.found

\* A plausible slip: the product class is left out of the overall match.
overallMatchWithoutClass(brandNameMatch, productClassMatch, alcoholContentMatch, netContentsMatch, governmentWarning) ==
    /\ brandNameMatch
    /\ alcoholContentMatch
    /\ netContentsMatch

\* const overallMatch = brandNameMatch && productClassMatch &&
\*                      alcoholContentMatch && netContentsMatch
overallMatchOf(brandNameMatch, productClassMatch, alcoholContentMatch, netContentsMatch, governmentWarning) ==
    /\ brandNameMatch
    /\ productClassMatch
    /\ alcoholContentMatch
    /\ netContentsMatch

\* A plausible slip: the alcohol outcome is reported whether declared or not.
alcoholOutcomeAlways(declared, alcoholContentMatch, extractedAlcohol) ==
    [match |-> alcoholContentMatch, extracted |-> extractedAlcohol, expected |-> declared]

\* alcoholContent: formData.alcoholContent !== undefined ? {...} : undefined
alcoholOutcome(declared, alcoholContentMatch, extractedAlcohol) ==
    IF declared # Undefined
    THEN [match |-> alcoholContentMatch, extracted |-> extractedAlcohol,
          expected |-> declared]
    ELSE UndefinedOutcome

\* A plausible slip: the outcome shows the declared net contents as the
\* extracted value whether or not the label states them.
netContentsOutcomeEchoing(declared, netContentsMatch, extractedNetContents) ==
    IF Truthy(declared)
    THEN [match |-> netContentsMatch, extracted |-> declared, expected |-> declared]
    ELSE UndefinedOutcome

\* netContents: formData.netContents ? {...} : undefined
netContentsOutcome(declared, netContentsMatch, extractedNetContents) ==
    IF Truthy(declared)
    THEN [match |-> netContentsMatch, extracted |-> OrEmpty(extractedNetContents),
          expected |-> declared]
    ELSE UndefinedOutcome

\* A plausible slip: a recognition of low confidence cannot pass.
verifyLabelDistrustingLowConfidence(fd, ocrResult) ==
    LET extractedText == ocrResult.text
        extractedBrandName == extractBrandName(extractedText, fd.brandName)
        brandNameMatch == extractedBrandName # Null
        extractedProductClass == extractProductClass(extractedText, fd.productClass)
        productClassMatch == extractedProductClass # Null
        extractedAlcohol == extractAlcoholPercentage(extractedText, fd.alcoholContent)
        alcoholContentMatch ==
            IF fd.alcoholContent # Undefined THEN extractedAlcohol # Null ELSE TRUE
        extractedNetContents ==
            IF Truthy(fd.netContents) THEN extractVolume(extractedText, fd.netContents)
            ELSE Null
        netContentsMatch ==
            IF Truthy(fd.netContents) THEN extractedNetContents # Null ELSE TRUE
        governmentWarning == checkGovernmentWarning(extractedText)
    IN  [ brandName |-> [match |-> brandNameMatch,
                         extracted |-> OrEmpty(extractedBrandName),
                         expected |-> fd.brandName],
          productClass |-> [match |-> productClassMatch,
                            extracted |-> OrEmpty(extractedProductClass),
                            expected |-> fd.productClass],
          alcoholContent |-> alcoholOutcome(fd.alcoholContent, alcoholContentMatch,
                                            extractedAlcohol),
          netContents |-> netContentsOutcome(fd.netContents, netContentsMatch,
                                             extractedNetContents),
          governmentWarning |-> governmentWarning,
          overallMatch |-> /\ ocrResult.confidence >= 50
                           /\ overallMatchOf(brandNameMatch, productClassMatch,
                                             alcoholContentMatch, netContentsMatch,
                                             governmentWarning),
          extractedText |-> ocrResult.text,
          ocrConfidence |-> ocrResult.confidence ]

\* A plausible slip: the fields after the first mismatch are not looked at and
\* are reported as mismatches.
verifyLabelShortCircuit(fd, ocrResult) ==
    LET extractedText == ocrResult.text
        extractedBrandName == extractBrandName(extractedText, fd.brandName)
        brandNameMatch == extractedBrandName # Null
        extractedProductClass == extractProductClass(extractedText, fd.productClass)
        productClassMatch == brandNameMatch /\ extractedProductClass # Null
        extractedAlcohol == extractAlcoholPercentage(extractedText, fd.alcoholContent)
        alcoholContentMatch ==
            IF fd.alcoholContent # Undefined
            THEN brandNameMatch /\ productClassMatch /\ extractedAlcohol # Null
            ELSE TRUE
        extractedNetContents ==
            IF Truthy(fd.netContents) THEN extractVolume(extractedText, fd.netContents)
            ELSE Null
        netContentsMatch ==
            IF Truthy(fd.netContents) THEN extractedNetContents # Null ELSE TRUE
        governmentWarning == checkGovernmentWarning(extractedText)
    IN  [ brandName |-> [match |-> brandNameMatch,
                         extracted |-> OrEmpty(extractedBrandName),
                         expected |-> fd.brandName],
          productClass |-> [match |-> productClassMatch,
                            extracted |-> OrEmpty(extractedProductClass),
                            expected |-> fd.productClass],
          alcoholContent |-> alcoholOutcome(fd.alcoholContent, alcoholContentMatch,
                                            extractedAlcohol),
          netContents |-> netContentsOutcome(fd.netContents, netContentsMatch,
                                             extractedNetContents),
          governmentWarning |-> governmentWarning,
          overallMatch |-> overallMatchOf(brandNameMatch, productClassMatch,
                                          alcoholContentMatch, netContentsMatch,
                                          governmentWarning),
          extractedText |-> ocrResult.text,
          ocrConfidence |-> ocrResult.confidence ]

\* verifyLabel(formData, ocrResult)
verifyLabel(fd, ocrResult) ==
    LET extractedText == ocrResult.text
        extractedBrandName == extractBrandName(extractedText, fd.brandName)
        brandNameMatch == extractedBrandName # Null
        extractedProductClass == extractProductClass(extractedText, fd.productClass)
        productClassMatch == extractedProductClass # Null
        extractedAlcohol == extractAlcoholPercentage(extractedText, fd.alcoholContent)
        alcoholContentMatch ==
            IF fd.alcoholContent # Undefined THEN extractedAlcohol # Null ELSE TRUE
        extractedNetContents ==
            IF Truthy(fd.netContents) THEN extractVolume(extractedText, fd.netContents)
            ELSE Null
        netContentsMatch ==
            IF Truthy(fd.netContents) THEN extractedNetContents # Null ELSE TRUE
        governmentWarning == checkGovernmentWarning(extractedText)
    IN  [ brandName |-> [match |-> brandNameMatch,
                         extracted |-> OrEmpty(extractedBrandName),
                         expected |-> fd.brandName],
          productClass |-> [match |-> productClassMatch,
                            extracted |-> OrEmpty(extractedProductClass),
                            expected |-> fd.productClass],
          alcoholContent |-> alcoholOutcome(fd.alcoholContent, alcoholContentMatch,
                                            extractedAlcohol),
          netContents |-> netContentsOutcome(fd.netContents, netContentsMatch,
                                             extractedNetContents),
          governmentWarning |-> governmentWarning,
          overallMatch |-> overallMatchOf(brandNameMatch, productClassMatch,
                                          alcoholContentMatch, netContentsMatch,
                                          governmentWarning),
          extractedText |-> ocrResult.text,
          ocrConfidence |-> ocrResult.confidence ]

LabelTokens ==
    { <<"B", "u", "d", " ", "B", "e", "e", "r", " ">>,
      <<"B", "U", "D", "\n">>,
      <<"5", ".", "0", "%", " ", "1", "2", " ", "F", "L", " ", "O", "Z", " ">>,
      <<"5", ".", "0", "%", " ">>,
      <<"1", "2", " ", "F", "L", " ", "O", "Z", " ">>,
      <<"2", " ", "F", "L", " ", "O", "Z", " ">>,
      <<"w", "a", "r", "n", "i", "n", "g", " ">> }

DeclaredData ==
    [ brandName : {<<"B", "u", "d">>},
      productClass : {<<"B", "e", "e", "r">>},
      alcoholContent : {Undefined, Number(500)},
      netContents : {Undefined, <<>>, <<"1", "2", " ", "F", "L", " ", "O", "Z">>} ]

Init ==
    /\ pc = "input"
    /\ text \in {Flatten(ts) : ts \in SeqsUpTo(LabelTokens, MaxLabelTokens)}
    /\ expected = Undefined
    /\ formData \in DeclaredData
    /\ confidence \in {10, 95}
    /\ hist = <<>>
    /\ UiInit

VerifyLabel ==
    /\ pc = "input"
    /\ hist' = <<verifyLabel(formData, [text |-> text, confidence |-> confidence])>>
    /\ pc' = "verified"
    /\ UNCHANGED <<text, expected, formData, confidence, uiVars>>

Next == VerifyLabel

Spec == Init /\ [][Next]_vars

(***************************************************************************)
(* Properties of the aggregator.                                           *)
(***************************************************************************)
\* an optional outcome is present in the result
Present(outcome) == outcome # UndefinedOutcome

\* every field outcome present in the result has match = true
AllPresentMatch(r) ==
    /\ r.brandName.match
    /\ r.productClass.match
    /\ Present(r.alcoholContent) => r.alcoholContent.match
    /\ Present(r.netContents) => r.netContents.match

\* C1: overallMatch is true exactly when every field outcome present in the
\* result matched; an absent optional field does not block a pass.
C1_OverallIffAllPresentMatch ==
    pc = "verified" => (hist[1].overallMatch <=> AllPresentMatch(hist[1]))

\* a pass with the alcohol outcome present and the net contents outcome absent
C1_Witness ==
    /\ pc = "verified"
    /\ hist[1].overallMatch
    /\ Present(hist[1].alcoholContent)
    /\ ~Present(hist[1].netContents)

\* C2: the warning outcome is advisory: a label whose present fields all match
\* passes although no government warning was found.
C2_WarningAdvisory ==
    (pc = "verified" /\ AllPresentMatch(hist[1]) /\ ~hist[1].governmentWarning.found)
        => hist[1].overallMatch

\* a pass of all four fields without a warning on the label
C2_Witness ==
    /\ pc = "verified"
    /\ ~hist[1].governmentWarning.found
    /\ hist[1].overallMatch
    /\ Present(hist[1].alcoholContent)
    /\ Present(hist[1].netContents)

\* C3: the alcohol outcome is absent exactly when no alcohol percentage is
\* declared, the net contents outcome exactly when no net contents is declared
\* (undefined or the empty string of an untouched form field); with both
\* omitted the overall match is that of brand name and product class.
C3_OptionalAbsentIffUndeclared ==
    pc = "verified" =>
        /\ ~Present(hist[1].alcoholContent) <=> formData.alcoholContent = Undefined
        /\ ~Present(hist[1].netContents) <=> formData.netContents \in {Undefined, <<>>}
        /\ (formData.alcoholContent = Undefined /\ formData.netContents \in {Undefined, <<>>})
            => (hist[1].overallMatch
                    <=> (hist[1].brandName.match /\ hist[1].productClass.match))

\* both optional fields omitted, the label carrying numbers all the same
C3_Witness ==
    /\ pc = "verified"
    /\ formData.alcoholContent = Undefined
    /\ formData.netContents = <<>>
    /\ ~Present(hist[1].alcoholContent)
    /\ ~Present(hist[1].netContents)
    /\ hist[1].overallMatch
    /\ test(alcoholPatterns[1], text)

(***************************************************************************)
(* The three extractors that are driven by an expected value, called with  *)
(* and without one on texts that hold brand names and volumes.             *)
(***************************************************************************)
MaxHintTokens == 2  \* longest text handed to the hint-driven extractors, in tokens

HintTokens == BrandTokens \cup VolumeTokens

HintExpected ==
    { Undefined, <<>>, <<"B", "u", "d">>, <<"1", "2", " ", "F", "L", " ", "O", "Z">> }

InitHintDriven ==
    /\ pc = "input"
    /\ text \in {Flatten(ts) : ts \in SeqsUpTo(HintTokens, MaxHintTokens)}
    /\ expected \in HintExpected
    /\ formData = Undefined
    /\ confidence = 0
    /\ hist = <<>>
    /\ UiInit

NextHintDriven == ExtractBrandName \/ ExtractProductClass \/ ExtractVolume

SpecHintDriven == InitHintDriven /\ [][NextHintDriven]_vars

\* C11: without an expected value (undefined or the empty string) extractVolume,
\* extractBrandName and extractProductClass return null whatever the text holds.
C11_NullWithoutExpected ==
    (pc \in {"brand", "class", "volume"} /\ ~Truthy(expected)) => hist[1] = Null

\* extractVolume called without an expected volume on a text that states one
C11_Witness ==
    /\ pc = "volume"
    /\ expected = <<>>
    /\ \E k \in 1..Len(volumePatterns) : test(volumePatterns[k], text)
    /\ hist[1] = Null

\* C15: the recognised text and its confidence are copied into the result
\* unchanged, and the result for any other confidence differs in nothing but
\* the copied confidence: no match flag and no overall match depends on it.
C15_TextAndConfidenceCopied ==
    pc = "verified" =>
        /\ hist[1].extractedText = text
        /\ hist[1].ocrConfidence = confidence
        /\ \A c \in {10, 95} :
              [verifyLabel(formData, [text |-> text, confidence |-> c])
                  EXCEPT !.ocrConfidence = confidence] = hist[1]

\* a pass on a recognition of low confidence
C15_Witness ==
    /\ pc = "verified"
    /\ confidence = 10
    /\ hist[1].ocrConfidence = 10
    /\ hist[1].extractedText # <<>>
    /\ hist[1].overallMatch

\* C16: every field is evaluated and reported whatever the other fields gave:
\* the result always holds the brand name, product class and warning outcomes
\* and the outcome of every declared optional field, each being what its own
\* extractor returns for the text.
C16_AllFieldsReported ==
    pc = "verified" =>
        /\ DOMAIN hist[1] = { "brandName", "productClass", "alcoholContent", "netContents",
                              "governmentWarning", "overallMatch", "extractedText",
                              "ocrConfidence" }
        /\ hist[1].brandName.match
              = (extractBrandName(text, formData.brandName) # Null)
        /\ hist[1].productClass.match
              = (extractProductClass(text, formData.productClass) # Null)
        /\ hist[1].governmentWarning = checkGovernmentWarning(text)
        /\ formData.alcoholContent # Undefined =>
              /\ Present(hist[1].alcoholContent)
              /\ hist[1].alcoholContent.match
                    = (extractAlcoholPercentage(text, formData.alcoholContent) # Null)
        /\ Truthy(formData.netContents) =>
              /\ Present(hist[1].netContents)
              /\ hist[1].netContents.match
                    = (extractVolume(text, formData.netContents) # Null)

\* the brand name is missing from the label, and the alcohol content and the
\* warning are reported as found all the same
C16_Witness ==
    /\ pc = "verified"
    /\ ~hist[1].brandName.match
    /\ ~hist[1].productClass.match
    /\ Present(hist[1].alcoholContent)
    /\ hist[1].alcoholContent.match
    /\ hist[1].governmentWarning.found
    /\ ~hist[1].overallMatch

\* the quantities of the matches of pattern k of volumePatterns in t, from
\* offset i on
RECURSIVE QuantitiesOfPattern(_, _, _)
QuantitiesOfPattern(t, k, i) ==
    LET m == SearchFrom(volumePatterns[k].nodes, toLowerCase(t), i)
    IN  IF ~m.ok THEN {}
        ELSE {Group1(t, m)} \cup QuantitiesOfPattern(t, k, m.e)

\* the numeric quantities of the volumes the text states
QuantitiesStated(t) ==
    UNION {QuantitiesOfPattern(t, k, 1) : k \in 1..Len(volumePatterns)}

\* C18: when the one volume stated on the label has a quantity other than the
\* quantity of the declared net contents, the net contents outcome is a
\* mismatch and the overall match is false.
C18_OtherQuantityMismatches ==
    (/\ pc = "verified"
     /\ Truthy(formData.netContents)
     /\ Cardinality(QuantitiesStated(text)) = 1
     /\ QuantitiesStated(formData.netContents) \cap QuantitiesStated(text) = {}) =>
        /\ Present(hist[1].netContents)
        /\ ~hist[1].netContents.match
        /\ ~hist[1].overallMatch

(***************************************************************************)
(* verifyLabel on a recognition that read nothing, for declared data the   *)
(* form accepts: names that are not blank, net contents of any kind.       *)
(***************************************************************************)
DeclaredOnEmptyLabel ==
    [ brandName : {<<"B", "u", "d">>, <<"!">>},
      productClass : {<<"B", "e", "e", "r">>, <<"-">>},
      alcoholContent : {Undefined, Number(500), Number(10000)},
      netContents : {Undefined, <<>>, <<"1", "2", " ", "F", "L", " ", "O", "Z">>, <<".">>} ]

InitEmptyLabel ==
    /\ pc = "input"
    /\ text = <<>>
    /\ expected = Undefined
    /\ formData \in DeclaredOnEmptyLabel
    /\ confidence \in {0, 10, 95}
    /\ hist = <<>>
    /\ UiInit

NextEmptyLabel == VerifyLabel

SpecEmptyLabel == InitEmptyLabel /\ [][NextEmptyLabel]_vars

\* C17: for an empty recognised text and a non-empty brand name and product
\* class, every declared field is reported as not matched, no warning is found
\* and the overall match is false.
C17_EmptyTextMatchesNothing ==
    (pc = "verified" /\ text = <<>>
        /\ formData.brandName # <<>> /\ formData.productClass # <<>>) =>
        /\ ~hist[1].brandName.match
        /\ ~hist[1].productClass.match
        /\ Present(hist[1].alcoholContent) => ~hist[1].alcoholContent.match
        /\ Present(hist[1].netContents) => ~hist[1].netContents.match
        /\ ~hist[1].governmentWarning.found
        /\ ~hist[1].overallMatch

(***************************************************************************)
(* fuzzyMatch and its character-similarity helper isBrandNameMatch         *)
(***************************************************************************)
MaxFuzzyTokens == 2  \* longest string handed to fuzzyMatch, in tokens

\* normalizeTextForWords(text)
normalizeTextForWords(t) == stripNonWordNonSpace(trim(toLowerCase(t)))

\* String.prototype.split(/\s+/): the pieces between the runs of white space
RECURSIVE splitOnWhitespace(_)
splitOnWhitespace(s) ==
    LET at == {i \in 1..Len(s) : s[i] \in Whitespace}
    IN  IF at = {} THEN <<s>>
        ELSE LET first == Min(at)
                 after == Min({i \in (first + 1)..(Len(s) + 1) :
                                  i = Len(s) + 1 \/ s[i] \notin Whitespace})
             IN  <<SubSeq(s, 1, first - 1)>> \o splitOnWhitespace(SubSeq(s, after, Len(s)))

\* .split(/\s+/).filter(word => word.length > 2)
SignificantWords(t) == SelectSeq(splitOnWhitespace(normalizeTextForWords(t)), LAMBDA w : Len(w) > 2)

\* ocrSubstitutions: the characters each character may have been read as
ocrSubstitutions ==
    [ch \in Range(LowerChars) \cup Digit \cup {" ", "_"} |->
        CASE ch = "c" -> {"e", "o", "g"}
          [] ch = "e" -> {"c", "o"}
          [] ch = "o" -> {"c", "e", "0"}
          [] ch = "i" -> {"l", "1"}
          [] ch = "l" -> {"i", "1"}
          [] ch = "u" -> {"n", "v"}
          [] ch = "n" -> {"u", "v"}
          [] ch = "v" -> {"u", "n"}
          [] ch = "q" -> {"g", "o"}
          [] ch = "g" -> {"q", "o"}
          [] ch = "t" -> {"f", "l"}
          [] ch = "f" -> {"t", "l"}
          [] OTHER -> {}]

\* ocrSubstitutions[expectedChar]?.includes(extractedChar)
MayBeReadAs(expectedChar, extractedChar) ==
    expectedChar \in DOMAIN ocrSubstitutions /\ extractedChar \in ocrSubstitutions[expectedChar]

\* isBrandNameMatch(expected, extracted); matchCount / minLength >= 0.7 is
\* false for 0 / 0 and otherwise 10 * matchCount >= 7 * minLength
isBrandNameMatch(exp, extracted) ==
    LET minLength == IF Len(exp) <= Len(extracted) THEN Len(exp) ELSE Len(extracted)
        matchCount == Cardinality({i \in 1..minLength :
                          \/ exp[i] = extracted[i]
                          \/ MayBeReadAs(exp[i], extracted[i])})
    IN  /\ Len(exp) - Len(extracted) <= 2
        /\ Len(extracted) - Len(exp) <= 2
        /\ minLength > 0
        /\ 10 * matchCount >= 7 * minLength

\* fuzzyMatch(expected, extracted)
fuzzyMatch(exp, extracted) ==
    LET normalizedExpected == normalizeText(exp)
        normalizedExtracted == normalizeText(extracted)
        expectedWords == SignificantWords(exp)
        extractedWords == SignificantWords(extracted)
        allExpectedWordsFound ==
            \A i \in 1..Len(expectedWords) :
                \E j \in 1..Len(extractedWords) : includes(extractedWords[j], expectedWords[i])
        reverseMatch ==
            \A j \in 1..Len(extractedWords) :
                \E i \in 1..Len(expectedWords) : includes(expectedWords[i], extractedWords[j])
    IN  \/ normalizedExpected = normalizedExtracted
        \/ includes(normalizedExtracted, normalizedExpected)
        \/ includes(normalizedExpected, normalizedExtracted)
        \/ isBrandNameMatch(normalizedExpected, normalizedExtracted)
        \/ allExpectedWordsFound
        \/ (reverseMatch /\ Len(expectedWords) = Len(extractedWords))

FuzzyTokens ==
    { <<"1", "2", " ">>, <<"o", "z">>, <<"m", "l">>, <<"o", "o", "o">>, <<"0", "0", "0">>,
      <<"B", "u", "d">> }

FuzzyStrings == {Flatten(ts) : ts \in SeqsUpTo(FuzzyTokens, MaxFuzzyTokens)}

InitFuzzy ==
    /\ pc = "input"
    /\ text \in FuzzyStrings
    /\ expected \in FuzzyStrings
    /\ formData = Undefined
    /\ confidence = 0
    /\ hist = <<>>
    /\ UiInit

\* fuzzyMatch(expected, extracted), the extracted string being text
FuzzyMatch ==
    /\ pc = "input"
    /\ hist' = <<fuzzyMatch(expected, text)>>
    /\ pc' = "fuzzy"
    /\ UNCHANGED <<text, expected, formData, confidence, uiVars>>

\* the same two strings with their roles exchanged
FuzzyMatchSwapped ==
    /\ pc = "fuzzy"
    /\ hist' = Append(hist, fuzzyMatch(text, expected))
    /\ pc' = "swapped"
    /\ UNCHANGED <<text, expected, formData, confidence, uiVars>>

NextFuzzy == FuzzyMatch \/ FuzzyMatchSwapped

SpecFuzzy == InitFuzzy /\ [][NextFuzzy]_vars

\* the words of a normalised string, of any length
WordsOf(s) == {w \in Range(splitOnWhitespace(s)) : w # <<>>}

\* the share of the positions, over the shorter string, at which the characters
\* are equal or may be read as one another, is below 70%
FewPositionsAgree(a, b) ==
    LET n == IF Len(a) <= Len(b) THEN Len(a) ELSE Len(b)
        agree == {i \in 1..n : \/ a[i] = b[i]
                                \/ MayBeReadAs(a[i], b[i])
                                \/ MayBeReadAs(b[i], a[i])}
    IN  10 * Cardinality(agree) < 7 * n

\* two normalised strings that have nothing to do with one another
Unrelated(a, b) ==
    /\ a # <<>> /\ b # <<>>
    /\ ~includes(a, b) /\ ~includes(b, a)
    /\ \A w \in WordsOf(a) : \A v \in WordsOf(b) : ~includes(v, w)
    /\ FewPositionsAgree(a, b)

\* C19: fuzzyMatch is false for two non-empty normalised strings that are
\* unrelated, an expected string of short words only ("12 oz") included.
C19_UnrelatedNeverMatch ==
    (pc \in {"fuzzy", "swapped"} /\ Unrelated(normalizeText(expected), normalizeText(text)))
        => ~hist[1]

\* C20: for two strings of equal length the outcome does not depend on which
\* of them is the expected one, the confusion table being symmetric.
C20_SymmetricAtEqualLength ==
    (pc = "swapped" /\ Len(expected) = Len(text)) =>
        /\ hist[2] = hist[1]
        /\ \A a \in Range(expected), b \in Range(text) : MayBeReadAs(a, b) => MayBeReadAs(b, a)

(***************************************************************************)
(* The OCR providers.  A file is a record of its MIME type and its size in *)
(* bytes.  What the recognition engine does with the file is an input: it  *)
(* returns a text and a confidence, or it throws.  An error message is     *)
(* written as the sequence of its words.                                   *)
(***************************************************************************)
startsWith(s, prefix) == Len(s) >= Len(prefix) /\ SubSeq(s, 1, Len(prefix)) = prefix

ImagePrefix == <<"i", "m", "a", "g", "e", "/">>

MegaByte == 1024 * 1024

\* the recognition engine returned, or threw
Returned(t, c) == [threw |-> FALSE, text |-> t, confidence |-> c]
Threw(e) == [threw |-> TRUE, error |-> e]

\* a thrown value: an Error with its message, or any other value
ErrorOf(m) == [isError |-> TRUE, message |-> m]
NotAnError == [isError |-> FALSE]

\* how a call of an async function ends, and whether the recognition engine
\* was called on the way
Fulfilled(v, called) == [settled |-> "fulfilled", value |-> v, recognized |-> called]
Rejected(e, called) == [settled |-> "rejected", reason |-> e, recognized |-> called]

ProcessingError(type, message) == [type |-> type, message |-> message]

InvalidTypeMessage == <<"Please", "upload", "a", "valid", "image", "file", "(JPEG,", "PNG,", "etc.)">>
TooLargeMessage(mb) == <<"Image", "file", "is", "too", "large.", "Please", "upload", "an", "image", "smaller", "than", mb>>
NoTextMessage == <<"No", "text", "could", "be", "extracted", "from", "the", "image.", "Please", "try", "a", "clearer", "image.">>
FailedMessage(engine) == <<"Failed", "to", "process", "the", "image", "with", engine, "Please", "try", "again.">>

\* !text || text.trim().length === 0
NoText(t) == t = Undefined \/ t = Null \/ trim(t) = <<>>

\* the body without its try/catch: an exception of the engine leaves the call
TesseractProviderUncaught(imageFile, recognition) ==
    IF ~startsWith(imageFile.type, ImagePrefix)
    THEN Fulfilled(ProcessingError("INVALID_IMAGE", InvalidTypeMessage), FALSE)
    ELSE IF imageFile.size > 50 * MegaByte
    THEN Fulfilled(ProcessingError("INVALID_IMAGE", TooLargeMessage("50MB.")), FALSE)
    ELSE IF recognition.threw
    THEN Rejected(recognition.error, TRUE)
    ELSE IF NoText(recognition.text)
    THEN Fulfilled(ProcessingError("NO_TEXT_FOUND", NoTextMessage), TRUE)
    ELSE Fulfilled([text |-> recognition.text, confidence |-> recognition.confidence], TRUE)

\* TesseractProvider.extractText(imageFile)
TesseractProvider(imageFile, recognition) ==
    IF ~startsWith(imageFile.type, ImagePrefix)
    THEN Fulfilled(ProcessingError("INVALID_IMAGE", InvalidTypeMessage), FALSE)
    ELSE IF imageFile.size > 50 * MegaByte
    THEN Fulfilled(ProcessingError("INVALID_IMAGE", TooLargeMessage("50MB.")), FALSE)
    ELSE IF recognition.threw
    THEN Fulfilled(ProcessingError("OCR_FAILED", FailedMessage("Tesseract.")), TRUE)
    ELSE IF NoText(recognition.text)
    THEN Fulfilled(ProcessingError("NO_TEXT_FOUND", NoTextMessage), TRUE)
    ELSE Fulfilled([text |-> recognition.text, confidence |-> recognition.confidence], TRUE)

\* the failure the two Google providers make of a thrown value
OcrFailed(e, engine) ==
    LET errorMessage == IF e.isError THEN e.message ELSE FailedMessage(engine)
    IN  [type |-> "OCR_FAILED", message |-> errorMessage, details |-> errorMessage]

\* what callGoogleAIStudioAPI and callGoogleCloudVisionAPI make of the
\* response: text: data.text || '', confidence: data.confidence || 0
ApiResult(recognition) ==
    [ text |-> IF recognition.text \in {Undefined, Null} THEN <<>> ELSE recognition.text,
      confidence |-> recognition.confidence ]

\* GoogleAIStudioProvider.extractText(imageFile)
GoogleAIStudioProvider(imageFile, recognition) ==
    IF ~startsWith(imageFile.type, ImagePrefix)
    THEN Fulfilled(ProcessingError("INVALID_IMAGE", InvalidTypeMessage), FALSE)
    ELSE IF imageFile.size > 20 * MegaByte
    THEN Fulfilled(ProcessingError("INVALID_IMAGE", TooLargeMessage("20MB.")), FALSE)
    ELSE IF recognition.threw
    THEN Fulfilled(OcrFailed(recognition.error, "Google AI Studio."), TRUE)
    ELSE IF NoText(ApiResult(recognition).text)
    THEN Fulfilled(ProcessingError("NO_TEXT_FOUND", NoTextMessage), TRUE)
    ELSE Fulfilled(ApiResult(recognition), TRUE)

\* GoogleCloudVisionProvider.extractText(imageFile)
GoogleCloudVisionProvider(imageFile, recognition) ==
    IF ~startsWith(imageFile.type, ImagePrefix)
    THEN Fulfilled(ProcessingError("INVALID_IMAGE", InvalidTypeMessage), FALSE)
    ELSE IF imageFile.size > 20 * MegaByte
    THEN Fulfilled(ProcessingError("INVALID_IMAGE", TooLargeMessage("20MB.")), FALSE)
    ELSE IF recognition.threw
    THEN Fulfilled(OcrFailed(recognition.error, "Google Cloud Vision."), TRUE)
    ELSE IF NoText(ApiResult(recognition).text)
    THEN Fulfilled(ProcessingError("NO_TEXT_FOUND", NoTextMessage), TRUE)
    ELSE Fulfilled(ApiResult(recognition), TRUE)

OCRProviders == {"tesseract", "google-cloud-vision", "google-ai-studio"}

\* OCRProviderFactory.getProvider(provider).extractText(imageFile)
extractText(provider, imageFile, recognition) ==
    CASE provider = "tesseract" -> TesseractProvider(imageFile, recognition)
      [] provider = "google-cloud-vision" -> GoogleCloudVisionProvider(imageFile, recognition)
      [] provider = "google-ai-studio" -> GoogleAIStudioProvider(imageFile, recognition)

\* extractTextFromImage(imageFile, provider = 'google-cloud-vision'), called
\* with the arguments args: a missing second argument takes the default
ProviderOf(args) == IF Len(args) >= 2 THEN args[2] ELSE "google-cloud-vision"

\* typeof v === 'string'
IsString(v) == v \notin {Null, Undefined} /\ v \in Seq(STRING)

\* a check that takes every value for a recognition result
isOCRResultLoose(result) == TRUE

\* isOCRResult(result)
isOCRResult(result) ==
    /\ "text" \in DOMAIN result
    /\ "confidence" \in DOMAIN result
    /\ IsString(result.text)
    /\ result.confidence \in Int

\* the files a caller may hand to a provider
FileTypes ==
    { <<"i", "m", "a", "g", "e", "/", "p", "n", "g">>,
      <<"t", "e", "x", "t", "/", "p", "l", "a", "i", "n">>,
      <<"i", "m", "a", "g", "e">>,
      <<>> }

FileSizes == {0, MegaByte, 20 * MegaByte, 20 * MegaByte + 1, 50 * MegaByte, 50 * MegaByte + 1}

Files == [type : FileTypes, size : FileSizes]

\* what the recognition engine may do
Recognitions ==
    { Threw(ErrorOf(<<"Google", "Cloud", "Vision", "API", "error:", "Bad", "Gateway">>)),
      Threw(NotAnError),
      Returned(Undefined, 0),
      Returned(<<>>, 0),
      Returned(<<" ", "\n">>, 50),
      Returned(<<"B", "u", "d", " ", "B", "e", "e", "r">>, 95) }

Pending == [settled |-> "pending"]

InitProvider ==
    /\ pc = "input"
    /\ text = <<>>
    /\ expected = Undefined
    /\ formData = Undefined
    /\ confidence = 0
    /\ hist = <<>>
    /\ errors = [f \in {} |-> ""]
    /\ selectedImage = NullObject
    /\ isProcessing = FALSE
    /\ verificationResult = NullObject
    /\ error = Null
    /\ \E provider \in OCRProviders, imageFile \in Files :
          extractions = <<[provider |-> provider, imageFile |-> imageFile,
                          recognition |-> Pending, outcome |-> Pending]>>

\* the provider's extractText runs to its end on the file
ExtractText ==
    /\ pc = "input"
    /\ \E recognition \in Recognitions :
          extractions' = <<[extractions[1] EXCEPT !.recognition = recognition, !.outcome =
                extractText(extractions[1].provider, extractions[1].imageFile, recognition)]>>
    /\ pc' = "extracted"
    /\ UNCHANGED <<text, expected, formData, confidence, hist>>
    /\ UNCHANGED <<errors, selectedImage, isProcessing, verificationResult, error>>

NextProvider == ExtractText

SpecProvider == InitProvider /\ [][NextProvider]_vars

FailureTypes == {"INVALID_IMAGE", "NO_TEXT_FOUND", "OCR_FAILED"}

\* a success value {text, confidence} with a text worth the name
IsSuccess(v) == DOMAIN v = {"text", "confidence"} /\ ~NoText(v.text)

\* a tagged failure value
IsFailure(v) == "type" \in DOMAIN v /\ "message" \in DOMAIN v /\ v.type \in FailureTypes

\* the file is not an image, or is over the provider's limit
Unacceptable(provider, imageFile) ==
    \/ ~startsWith(imageFile.type, ImagePrefix)
    \/ imageFile.size > (IF provider = "tesseract" THEN 50 ELSE 20) * MegaByte

\* C23: every provider's extractText is fulfilled, never rejected, with a
\* success value or a tagged failure; a file that is not an image or is over
\* the limit gives INVALID_IMAGE without the recognition engine being called,
\* an acceptable file never gives INVALID_IMAGE, and an exception of the
\* recognition engine gives OCR_FAILED.
C23_ProvidersNeverReject ==
    pc = "extracted" =>
        LET call == extractions[1]
            out == call.outcome
        IN  /\ out.settled = "fulfilled"
            /\ IsSuccess(out.value) # IsFailure(out.value)
            /\ Unacceptable(call.provider, call.imageFile) <=>
                   (IsFailure(out.value) /\ out.value.type = "INVALID_IMAGE")
            /\ Unacceptable(call.provider, call.imageFile) => ~out.recognized
            /\ (~Unacceptable(call.provider, call.imageFile) /\ call.recognition.threw) =>
                   (IsFailure(out.value) /\ out.value.type = "OCR_FAILED")

\* C23: an acceptable file on which the recognition engine threw has given
\* OCR_FAILED.
C23_Witness ==
    /\ pc = "extracted"
    /\ ~Unacceptable(extractions[1].provider, extractions[1].imageFile)
    /\ extractions[1].outcome.settled = "fulfilled"
    /\ extractions[1].outcome.recognized
    /\ extractions[1].recognition.threw
    /\ IsFailure(extractions[1].outcome.value)
    /\ extractions[1].outcome.value.type = "OCR_FAILED"

(***************************************************************************)
(* The page Home: the form, the image upload and the result display.       *)
(* pc names the handler that ran last.  A call of extractTextFromImage is  *)
(* in flight while its outcome is Pending; the step that settles it runs   *)
(* the rest of handleFormSubmit.                                           *)
(***************************************************************************)
\* the providers the form's select offers
SelectableProviders == {"tesseract", "google-cloud-vision"}

\* the data a valid form hands to onSubmit
SubmittedData ==
    [ brandName : {<<"B", "u", "d">>},
      productClass : {<<"B", "e", "e", "r">>},
      alcoholContent : {Undefined},
      netContents : {<<>>},
      ocrProvider : SelectableProviders ]

\* the files the image upload hands to onImageSelect: images of at most 10MB
UploadedFiles == {f \in Files : startsWith(f.type, ImagePrefix) /\ f.size <= 10 * MegaByte}

\* what the recognition engine may do with a file of the page
PageRecognitions ==
    { Threw(ErrorOf(<<"Google", "Cloud", "Vision", "API", "error:", "Bad", "Gateway">>)),
      Returned(<<>>, 0),
      Returned(<<"B", "u", "d", " ", "B", "e", "e", "r">>, 95) }

\* no message at all
NoMessage == Null

NoImageMessage == <<"Please", "upload", "an", "image", "before", "submitting", "the", "form.">>

UnexpectedMessage == <<"An", "unexpected", "error", "occurred", "during", "processing.">>

\* the form and the upload are rendered while no result is shown
FormShown == verificationResult = NullObject

\* a submit button that is never disabled
SubmitAlwaysEnabled == TRUE

\* the submit button: disabled={isLoading}
SubmitEnabled == ~isProcessing

\* the upload button and the drop zone: disabled while isLoading
UploadEnabled == ~isProcessing

\* the calls of extractTextFromImage in flight
InFlight == {i \in DOMAIN extractions : extractions[i].outcome = Pending}

InitPage ==
    /\ pc = "input"
    /\ text = <<>>
    /\ expected = Undefined
    /\ formData = NullObject
    /\ confidence = 0
    /\ hist = <<>>
    /\ UiInit

\* handleImageSelect(file)
HandleImageSelect ==
    /\ FormShown /\ UploadEnabled
    /\ \E file \in UploadedFiles : selectedImage' = file
    /\ error' = Null
    /\ verificationResult' = NullObject
    /\ pc' = "handleImageSelect"
    /\ UNCHANGED <<text, expected, formData, confidence, hist, errors, isProcessing, extractions>>

\* handleFormSubmit(data) up to its await; without an image, to its return
HandleFormSubmit ==
    /\ FormShown /\ SubmitEnabled
    /\ \E data \in SubmittedData :
          /\ formData' = data
          /\ IF selectedImage = NullObject
             THEN /\ error' = NoImageMessage
                  /\ UNCHANGED <<isProcessing, extractions>>
             ELSE /\ Len(extractions) < MaxSubmissions
                  /\ error' = Null
                  /\ isProcessing' = TRUE
                  /\ extractions' = Append(extractions,
                        [ data |-> data, imageFile |-> selectedImage,
                          provider |-> ProviderOf(<<selectedImage>>),
                          recognition |-> Pending, outcome |-> Pending, verified |-> FALSE ])
    /\ pc' = "handleFormSubmit"
    /\ UNCHANGED <<text, expected, confidence, hist, errors, selectedImage, verificationResult>>

\* verifyLabel(data, ocrResult) as the page calls it: reading the text of a
\* value that has none throws
VerifyThrows(ocrResult) == ~("text" \in DOMAIN ocrResult /\ IsString(ocrResult.text))

\* the message of a failure, lost
FailureMessageLost(value) == Null

\* the message of a tagged failure
FailureMessage(value) == value.message

\* the rest of handleFormSubmit, from the settling of the call it awaits to
\* the end of its finally block
ExtractionResolves ==
    /\ \E i \in InFlight, recognition \in PageRecognitions :
          LET call == extractions[i]
              out == extractText(call.provider, call.imageFile, recognition)
              ok == out.settled = "fulfilled" /\ isOCRResult(out.value)
          IN  /\ extractions' = [extractions EXCEPT ![i] =
                    [call EXCEPT !.recognition = recognition, !.outcome = out, !.verified = ok]]
              /\ IF out.settled = "rejected" \/ (ok /\ VerifyThrows(out.value))
                 THEN error' = UnexpectedMessage /\ UNCHANGED verificationResult
                 ELSE IF ok
                 THEN /\ verificationResult' = verifyLabel(call.data, out.value)
                      /\ UNCHANGED error
                 ELSE /\ error' = FailureMessage(out.value)
                      /\ UNCHANGED verificationResult
    /\ isProcessing' = FALSE
    /\ pc' = "resolved"
    /\ UNCHANGED <<text, expected, formData, confidence, hist, errors, selectedImage>>

\* handleRetry(), from the result display
HandleRetry ==
    /\ ~FormShown
    /\ formData' = NullObject
    /\ selectedImage' = NullObject
    /\ verificationResult' = NullObject
    /\ error' = Null
    /\ pc' = "handleRetry"
    /\ UNCHANGED <<text, expected, confidence, hist, errors, isProcessing, extractions>>

NextPage == HandleImageSelect \/ HandleFormSubmit \/ ExtractionResolves \/ HandleRetry

SpecPage == InitPage /\ [][NextPage]_vars

\* the event loop runs the rest of a handler whose awaited call has settled
SpecPageFair == SpecPage /\ WF_vars(ExtractionResolves)

\* C21: the provider that performs the extraction of a submission is the one
\* selected in the submitted form.
C21_SelectedProviderExtracts ==
    \A i \in DOMAIN extractions : extractions[i].provider = extractions[i].data.ocrProvider

\* the call whose settling the page handled last
LastCall == extractions[Len(extractions)]

\* C22: verifyLabel is called with a success value only; when the extraction
\* gives a tagged failure the page shows the failure's message, does not call
\* verifyLabel and shows no result.
C22_VerifyOnlyOnSuccess ==
    /\ \A i \in DOMAIN extractions :
          extractions[i].verified => IsSuccess(extractions[i].outcome.value)
    /\ (pc = "resolved" /\ IsFailure(LastCall.outcome.value)) =>
          /\ ~LastCall.verified
          /\ error = LastCall.outcome.value.message
          /\ verificationResult = NullObject

\* C22: an extraction has ended in a tagged failure.
C22_Witness ==
    /\ pc = "resolved"
    /\ IsFailure(LastCall.outcome.value)
    /\ LastCall.outcome.value.type = "NO_TEXT_FOUND"
    /\ error = NoTextMessage

\* C27: at most one extraction is in flight, and while one is the page is
\* processing (form and upload disabled) and the selected image is still the
\* one being read.
C27_OneExtractionInFlight ==
    /\ Cardinality(InFlight) <= 1
    /\ \A i \in InFlight : isProcessing /\ extractions[i].imageFile = selectedImage

\* C27: a second submission is in flight after the first one has finished.
C27_Witness ==
    /\ Len(extractions) = 2
    /\ InFlight = {2}
    /\ isProcessing

\* C28: a submission that starts processing ends it, and at the step that
\* ends it exactly one of the result and the error message is set.
C28_ProcessingEnds ==
    /\ [](isProcessing => <>(~isProcessing))
    /\ [][(isProcessing /\ ~isProcessing') =>
            ((verificationResult' # NullObject) # (error' # Null))]_vars

\* C28: a submission has ended with a result, another with an error message.
C28_Witness ==
    /\ Len(extractions) = 2
    /\ InFlight = {}
    /\ extractions[1].verified
    /\ ~extractions[2].verified
    /\ ~isProcessing
    /\ error # Null
    /\ verificationResult = NullObject

\* C29: a submission without an image sets the error message, starts no
\* extraction, leaves the page not processing and shows no result.
C29_SubmitWithoutImage ==
    [][(pc' = "handleFormSubmit" /\ selectedImage = NullObject) =>
          /\ error' # Null
          /\ extractions' = extractions
          /\ ~isProcessing'
          /\ verificationResult' = NullObject]_vars

\* C29: the form has been submitted without an image, after a retry.
C29_Witness ==
    /\ pc = "handleFormSubmit"
    /\ selectedImage = NullObject
    /\ error # Null
    /\ Len(extractions) = 1
    /\ InFlight = {}

(***************************************************************************)
(* The form TTBForm: formData is the form's own state, errors its          *)
(* validation errors by field name, hist the data handed to onSubmit.      *)
(***************************************************************************)
Fields == {"brandName", "productClass", "alcoholContent", "netContents", "ocrProvider"}

\* what the user may put into a field
FieldValues(field) ==
    CASE field = "brandName" -> {<<>>, <<" ">>, <<"B", "u", "d">>}
      [] field = "productClass" -> {<<>>, <<"W", "i", "n", "e">>}
      [] field = "alcoholContent" ->
            {Undefined, Number(-100), Number(0), Number(10), Number(10000), Number(10010)}
      [] field = "netContents" -> {<<>>}
      [] field = "ocrProvider" -> SelectableProviders

\* useState of the form
InitialFormData ==
    [ brandName |-> <<>>, productClass |-> <<>>, alcoholContent |-> Undefined,
      netContents |-> <<>>, ocrProvider |-> "google-cloud-vision" ]

RequiredMessage(what) == <<what, "is", "required">>
RangeMessage == <<"Alcohol", "content", "must", "be", "between", "0", "and", "100%">>

\* a range check that lets every number through
AlcoholNeverOutOfRange(a) == FALSE

\* alcoholContent !== undefined && (alcoholContent <= 0 || alcoholContent > 100)
AlcoholOutOfRange(a) == a # Undefined /\ (Hundredths(a) <= 0 \/ Hundredths(a) > 100 * 100)

\* newErrors of validateForm
validateForm(fd) ==
    LET failing == {f \in {"brandName", "productClass", "alcoholContent"} :
                        \/ f = "brandName" /\ trim(fd.brandName) = <<>>
                        \/ f = "productClass" /\ trim(fd.productClass) = <<>>
                        \/ f = "alcoholContent" /\ AlcoholOutOfRange(fd.alcoholContent)}
    IN  [f \in failing |->
            CASE f = "brandName" -> RequiredMessage("Brand name")
              [] f = "productClass" -> RequiredMessage("Product class")
              [] f = "alcoholContent" -> RangeMessage]

InitForm ==
    /\ pc = "input"
    /\ text = <<>>
    /\ expected = Undefined
    /\ formData = InitialFormData
    /\ confidence = 0
    /\ hist = <<>>
    /\ UiInit

\* handleInputChange(field, value)
HandleInputChange ==
    /\ \E field \in Fields : \E value \in FieldValues(field) :
          /\ formData' = [formData EXCEPT ![field] = value]
          /\ errors' = [f \in DOMAIN errors \ {field} |-> errors[f]]
    /\ pc' = "handleInputChange"
    /\ UNCHANGED <<text, expected, confidence, hist>>
    /\ UNCHANGED <<selectedImage, isProcessing, verificationResult, error, extractions>>

\* handleSubmit(e): validateForm() and, when it passes, onSubmit(formData)
HandleSubmit ==
    /\ errors' = validateForm(formData)
    /\ IF DOMAIN validateForm(formData) = {}
       THEN /\ Len(hist) < MaxFormSubmits
            /\ hist' = Append(hist, formData)
       ELSE UNCHANGED hist
    /\ pc' = "handleSubmit"
    /\ UNCHANGED <<text, expected, formData, confidence>>
    /\ UNCHANGED <<selectedImage, isProcessing, verificationResult, error, extractions>>

NextForm == HandleInputChange \/ HandleSubmit

SpecForm == InitForm /\ [][NextForm]_vars

\* the fields that fail the validation the form is to make
FailingFields(fd) ==
    {f \in Fields :
        \/ f = "brandName" /\ trim(fd.brandName) = <<>>
        \/ f = "productClass" /\ trim(fd.productClass) = <<>>
        \/ f = "alcoholContent" /\ fd.alcoholContent # Undefined
              /\ (Hundredths(fd.alcoholContent) < 0 \/ Hundredths(fd.alcoholContent) > 10000)}

\* C24: a submission hands the form's data to onSubmit only when no field
\* fails; when a field fails, onSubmit is not called and every failing field
\* has its error.
C24_OnSubmitOnlyValidated ==
    [][pc' = "handleSubmit" =>
          /\ hist' # hist => (hist' = Append(hist, formData) /\ FailingFields(formData) = {})
          /\ FailingFields(formData) # {} =>
                (hist' = hist /\ FailingFields(formData) \subseteq DOMAIN errors')]_vars

\* C24: after one accepted submission, a submission with an empty brand name
\* and an alcohol content over 100 has been refused.
C24_Witness ==
    /\ pc = "handleSubmit"
    /\ Len(hist) = 1
    /\ formData # hist[1]
    /\ DOMAIN errors = {"brandName", "alcoholContent"}

(***************************************************************************)
(* isBrandNameMatch on its own, for the normalised strings fuzzyMatch      *)
(* hands to it: short tokens and a product class of several words.         *)
(***************************************************************************)
SimilarityTokens ==
    { <<"b", "u", "d">>, <<"o">>, <<"0">>,
      <<"w", "h", "i", "s", "k", "e", "y">>, <<"w", "h", "i", "s", "k", "y">>,
      <<"k", "e", "n", "t", "u", "c", "k", "y", " ", "s", "t", "r", "a", "i", "g", "h", "t", " ",
        "b", "o", "u", "r", "b", "o", "n", " ">> }

SimilarityStrings ==
    {normalizeText(Flatten(ts)) : ts \in SeqsUpTo(SimilarityTokens, MaxSimilarityTokens)}

InitSimilarity ==
    /\ pc = "input"
    /\ text \in SimilarityStrings
    /\ expected \in SimilarityStrings
    /\ formData = Undefined
    /\ confidence = 0
    /\ hist = <<>>
    /\ UiInit

\* isBrandNameMatch(expected, extracted), the extracted string being text
IsBrandNameMatch ==
    /\ pc = "input"
    /\ hist' = <<isBrandNameMatch(expected, text)>>
    /\ pc' = "similarity"
    /\ UNCHANGED <<text, expected, formData, confidence, uiVars>>

NextSimilarity == IsBrandNameMatch

SpecSimilarity == InitSimilarity /\ [][NextSimilarity]_vars

\* the positions, over the shorter string, at which the characters are equal
\* or the expected one may be read as the extracted one
AgreeingPositions(a, b) ==
    {i \in 1..(IF Len(a) <= Len(b) THEN Len(a) ELSE Len(b)) :
        a[i] = b[i] \/ MayBeReadAs(a[i], b[i])}

\* a string longer than a brand token: more than twenty characters
LongString(s) == Len(s) > 20

\* C26: the similarity check matches exactly when neither string is empty, the
\* lengths differ by at most 2 and at least 70% of the compared positions
\* agree; and it declares no match between two long strings neither of which
\* holds the other.
C26_SimilarityOnShortStringsOnly ==
    pc = "similarity" =>
        /\ hist[1] <=>
              /\ expected # <<>> /\ text # <<>>
              /\ Distance(Len(expected), Len(text)) <= 2
              /\ 10 * Cardinality(AgreeingPositions(expected, text)) >=
                    7 * Min({Len(expected), Len(text)})
        /\ (/\ LongString(expected) /\ LongString(text)
            /\ ~includes(expected, text) /\ ~includes(text, expected)) => ~hist[1]

\* a string with at least one character
NonEmptyString(v) == IsString(v) /\ v # <<>>

\* C30: in a result of verifyLabel every present field outcome has match set
\* exactly when its extracted value is non-empty (not null, for the alcohol
\* content) and has the declared value as its expected value.
C30_OutcomesConsistent ==
    pc = "verified" =>
        LET r == hist[1]
        IN  /\ r.brandName.match <=> NonEmptyString(r.brandName.extracted)
            /\ r.brandName.expected = formData.brandName
            /\ r.productClass.match <=> NonEmptyString(r.productClass.extracted)
            /\ r.productClass.expected = formData.productClass
            /\ Present(r.alcoholContent) =>
                  /\ r.alcoholContent.match <=> r.alcoholContent.extracted # Null
                  /\ r.alcoholContent.expected = formData.alcoholContent
            /\ Present(r.netContents) =>
                  /\ r.netContents.match <=> NonEmptyString(r.netContents.extracted)
                  /\ r.netContents.expected = formData.netContents

\* C30: a result whose brand matched and whose declared net contents and
\* alcohol content were not found on the label.
C30_Witness ==
    /\ pc = "verified"
    /\ hist[1].brandName.match
    /\ hist[1].brandName.extracted = formData.brandName
    /\ Present(hist[1].alcoholContent)
    /\ hist[1].alcoholContent.extracted = Null
    /\ Present(hist[1].netContents)
    /\ ~hist[1].netContents.match
    /\ hist[1].netContents.extracted = <<>>

====
